---------------------------- MODULE Spec2Model ----------------------------
(***************************************************************************)
(* A model of the detection / mitigation engine of the Raspberry Pi Wi-Fi  *)
(* security tool: DeauthDetection.py (sliding-window de-auth flood         *)
(* detector), RogueAPDetection.py (trust-based access point classifier),   *)
(* and the command handlers of MQTTHelper.py (block, trust update).        *)
(*                                                                         *)
(* Three threads of Main.py are modelled:                                  *)
(*   - the de-auth sniffer   (DeauthDetection.StartSniffing -> DetectDeauth)*)
(*   - the beacon sniffer    (RogueAPDetection.StartSniffing -> DetectRogue)*)
(*   - the MQTT network loop (MQTTHelper.OnMessage -> BlockCallback,       *)
(*                            UpdateTrustedCallback)                       *)
(* A handler is split into steps exactly where it reads or writes a global *)
(* that another thread writes or reads.                                    *)
(*                                                                         *)
(* Time is counted in ticks of 1/TicksPerSec second.  A Python str that is *)
(* only compared is a TLA+ string; an SSID is a sequence of characters and *)
(* a BSSID given to lower()/split(":") is a sequence of octets.            *)
(***************************************************************************)
EXTENDS Integers, Sequences, FiniteSets, TLC

(***************************************************************************)
(* Program constants                                                       *)
(***************************************************************************)
Threshold == 15
TimeWindow == 5
BlockCooldown == 30
AlertInterval == 1
DefaultCount == 10
AssessSleep == 2

(***************************************************************************)
(* Bounds of the model                                                     *)
(***************************************************************************)
TicksPerSec == 2
\* SpecRogue: beacons are delivered while fewer messages have been published
MaxPublished == 2
\* SpecBurst: frames of the burst, and the ticks it lasts
BurstFrames == 16
BurstTicks == 6
\* SpecWindow: frames delivered, and ticks the clock runs past the window
WindowFrames == 4
WindowSlack == 2
\* SpecBlock: frames of the flood before it, then frames, clock steps and
\* block commands delivered
BlockFrames == 1
BlockAdvances == 2
BlockCommands == 2
\* SpecOscillate: frames delivered and clock steps taken
OscFrames == 18
OscAdvances == 2
\* SpecStall: block commands delivered, frames handled after the flood, and
\* ticks the clock runs
StallCommands == 1
StallFrames == 2
StallTicks == 1
\* SpecSkew: frames delivered and steps the clock takes, forwards or backwards
SkewFrames == 4
SkewSteps == 3
\* SpecTie: frames delivered after the loaded window, and clock steps taken
TieFrames == 4
TieSteps == 2
\* SpecExpire: block commands and frames delivered and ticks the clock runs
\* after the flood
ExpireCommands == 1
ExpireFrames == 2
ExpireTicks == 2
\* SpecPair: frames delivered after the flood, and clock steps taken
PairFrames == 3
PairSteps == 2
\* SpecKey: block commands delivered, frames delivered, and clock steps taken
KeyCommands == 2
KeyFrames == 3
KeySteps == 2
\* SpecCommand: block commands and run_assessment commands delivered, and
\* clock steps taken while an assessment thread sleeps
CommandCount == 2
AssessCommands == 1
CommandSleeps == 2
\* SpecInject: block commands delivered, and ticks the clock runs
InjectCommands == 1
InjectTicks == 3

(***************************************************************************)
(* Generic helpers                                                         *)
(***************************************************************************)
Range(s) == {s[i] : i \in DOMAIN s}

\* An empty Python dict (and a command payload with no key).
EmptyDict == << >>

(***************************************************************************)
(* Characters and SSIDs (RogueAPDetection.py:16-21)                        *)
(*   "acirc","euro","tm" : the three characters of the literal in line 21  *)
(*   "rsquo"            : U+2019, the curly apostrophe itself              *)
(*   "apos"             : the straight apostrophe                          *)
(*   "nul"              : U+0000;  "sp","tab" : white space                *)
(***************************************************************************)
Whitespace == {"sp", "tab"}
CurlyLiteral == <<"acirc", "euro", "tm">>

\* str.replace(CurlyLiteral, "'"): left to right, non-overlapping.
RECURSIVE ReplaceCurly(_)
ReplaceCurly(s) ==
    IF Len(s) < Len(CurlyLiteral) THEN s
    ELSE IF SubSeq(s, 1, Len(CurlyLiteral)) = CurlyLiteral
         THEN <<"apos">> \o ReplaceCurly(SubSeq(s, Len(CurlyLiteral) + 1, Len(s)))
         ELSE <<s[1]>> \o ReplaceCurly(Tail(s))

\* str.replace("\u0000", "")
RemoveNul(s) == SelectSeq(s, LAMBDA c : c # "nul")

\* str.strip()
RECURSIVE LStrip(_)
LStrip(s) == IF s # << >> /\ s[1] \in Whitespace THEN LStrip(Tail(s)) ELSE s
RECURSIVE RStrip(_)
RStrip(s) == IF s # << >> /\ s[Len(s)] \in Whitespace
             THEN RStrip(SubSeq(s, 1, Len(s) - 1)) ELSE s
Strip(s) == RStrip(LStrip(s))

NormaliseSSID(SSID) == Strip(RemoveNul(ReplaceCurly(SSID)))

(***************************************************************************)
(* Addresses (RogueAPDetection.py:23-28, 54, 72)                           *)
(***************************************************************************)
\* str.lower() on one octet
LowerOctet(o) ==
    CASE o = "AA" -> "aa" [] o = "BB" -> "bb" [] o = "CC" -> "cc"
      [] o = "DD" -> "dd" [] o = "EE" -> "ee" [] o = "FF" -> "ff"
      [] OTHER -> o
Lower(BSSID) == [i \in 1..Len(BSSID) |-> LowerOctet(BSSID[i])]

GetPrefixKeepsCase(BSSID) ==
    IF Len(BSSID) >= 3 THEN SubSeq(BSSID, 1, 3) ELSE BSSID
GetPrefix(BSSID) ==
    IF Len(BSSID) >= 3 THEN Lower(SubSeq(BSSID, 1, 3)) ELSE Lower(BSSID)

(***************************************************************************)
(* Inputs: the SSIDs and addresses the frame source and the command bus    *)
(* deliver in this model.                                                  *)
(***************************************************************************)
Home == <<"H">>
Cafe == <<"C">>
Unknown1 == <<"U">>
Hidden == << >>
HomePadded == <<"sp", "H", "nul">>

HomeAP == <<"aa", "bb", "cc", "dd", "ee", "ff">>
HomeAPUpper == <<"AA", "BB", "CC", "DD", "EE", "FF">>
EvilAP == <<"aa", "bb", "cc", "dd", "ee", "00">>
CafeAP == <<"11", "22", "33", "99", "99", "99">>

BeaconSSIDs == {Home, HomePadded, Cafe, Unknown1, Hidden}
BeaconBSSIDs == {HomeAP, EvilAP, CafeAP}

\* Values of the "personal" and "public" fields of a trust-update command.
PersonalFields == {EmptyDict, Home :> <<HomeAPUpper>>}
PublicFields == {EmptyDict, Cafe :> <<CafeAP>>, Home :> <<HomeAPUpper>>}
TrustCmds ==
    {EmptyDict}
      \cup {[personal |-> p] : p \in PersonalFields}
      \cup {[public |-> q] : q \in PublicFields}
      \cup {[personal |-> p, public |-> q] : p \in PersonalFields, q \in PublicFields}

(***************************************************************************)
(* State                                                                   *)
(***************************************************************************)
VARIABLES
    now,                \* time.time(), in ticks
    DeauthRecords,      \* DeauthDetection.py:9   dict Destination -> list of (T, A)
    MaxDeauthCounts,    \* DeauthDetection.py:12  dict Destination -> int
    LastAlertTime,      \* DeauthDetection.py:19  dict Destination -> time
    BLOCKED_BSSIDS,     \* MQTTHelper.py:10       dict BSSID -> time
    PersonalTrusted,    \* RogueAPDetection.py:8  dict SSID -> list of BSSID
    PublicTrusted,      \* RogueAPDetection.py:10 dict SSID -> list of prefix
    AlertedRogues,      \* RogueAPDetection.py:13 set of (SSID, BSSID)
    UnrecognisedSSIDs,  \* RogueAPDetection.py:14 set of SSID
    published,          \* what mqtt_helper.publish was called with, in order
    rPc,                \* beacon sniffer thread: where it is
    beacon,             \* beacon sniffer thread: SSID, BSSID of DetectRogue
    mqttPc,             \* MQTT loop thread: where it is
    mqttData,           \* MQTT loop thread: Data of the command being handled
    mqttExc,            \* exceptions that left OnMessage, in order
    assessments,        \* assessment threads started (MQTTHelper.py:144, 151) and
                        \* not yet ended, in the order of their start
    assessPc,           \* for each of them: where it is ("main", or "sleep" in
                        \* the time.sleep(2) that ends Main) and when it wakes
    mqttOld,            \* history: PersonalTrusted before line 54 of the command in hand
    seenUnmatched,      \* history: SSIDs that reached line 104 (matched neither mapping)
    sendpOutcome,       \* history: how the last sendp() call ended
    transmitted,        \* MQTTHelper.py:46,87   how many entries of published the
                        \* thread of Client.loop_start() has written to the broker
    ev                  \* history: the last de-auth frame handled (n: how many so
                        \* far; counted: it passed line 45), the clock steps taken
                        \* and the block commands delivered; prev: the block
                        \* record that the last sendp() to return replaced;
                        \* sent: the frames of the sendp() in hand (or of the
                        \* last one) handled so far; runs: the run_assessment
                        \* commands delivered

deauthVars == <<DeauthRecords, MaxDeauthCounts, LastAlertTime>>
rogueVars == <<PersonalTrusted, PublicTrusted, AlertedRogues, UnrecognisedSSIDs,
               seenUnmatched>>
beaconThread == <<rPc, beacon>>
assessThreads == <<assessments, assessPc>>
mqttThread == <<mqttPc, mqttData, mqttExc, mqttOld, sendpOutcome, transmitted,
                assessThreads>>
vars == <<now, deauthVars, BLOCKED_BSSIDS, rogueVars, published,
          beaconThread, mqttThread, ev>>

NoBeacon == [ssid |-> << >>, bssid |-> << >>, pRead |-> EmptyDict]
NoEvent == [n |-> 0, dst |-> "", src |-> "", t |-> 0, counted |-> FALSE,
            ticks |-> 0, blocks |-> 0, prev |-> -1,
             sent |-> 0, runs |-> 0]

Init ==
    /\ now = 0
    /\ DeauthRecords = EmptyDict
    /\ MaxDeauthCounts = EmptyDict
    /\ LastAlertTime = EmptyDict
    /\ BLOCKED_BSSIDS = EmptyDict
    /\ PersonalTrusted = EmptyDict
    /\ PublicTrusted = EmptyDict
    /\ AlertedRogues = {}
    /\ UnrecognisedSSIDs = {}
    /\ published = << >>
    /\ rPc = "sniff"
    /\ beacon = NoBeacon
    /\ mqttPc = "idle"
    /\ mqttData = EmptyDict
    /\ mqttExc = << >>
    /\ assessments = << >>
    /\ assessPc = << >>
    /\ mqttOld = EmptyDict
    /\ sendpOutcome = "none"
    /\ transmitted = Len(published)
    /\ seenUnmatched = {}
    /\ ev = NoEvent

\* MQTTHelper.publish(Topic, Payload): the payload goes out on the topic.
Publish(Topic, Payload) ==
    Append(published, [topic |-> Topic, payload |-> Payload, at |-> now])

(***************************************************************************)
(* Trust Store: UpdateTrustedCallback (RogueAPDetection.py:35-59), run by  *)
(* the MQTT loop thread.  The two globals are assigned one after the other *)
(* (lines 54 and 58); the beacon thread can run in between.                *)
(***************************************************************************)
\* line 54: { k: [x.lower() for x in v] for k, v in Data["personal"].items() }
PersonalFromData(Data) ==
    [k \in DOMAIN Data.personal |->
        [i \in 1..Len(Data.personal[k]) |-> Lower(Data.personal[k][i])]]

\* line 58: { k: [GetPrefix(x) for x in v] for k, v in Data["public"].items() }
PublicFromData(Data) ==
    [k \in DOMAIN Data.public |->
        [i \in 1..Len(Data.public[k]) |-> GetPrefix(Data.public[k][i])]]

\* lines 52-54
NewPersonalAppends(Data, Old) ==
    IF "personal" \in DOMAIN Data
    THEN [k \in DOMAIN Data.personal |->
            IF k \in DOMAIN Old THEN Old[k] \o PersonalFromData(Data)[k]
            ELSE PersonalFromData(Data)[k]]
    ELSE Old
NewPersonalClearsWhenAbsent(Data, Old) ==
    IF "personal" \in DOMAIN Data THEN PersonalFromData(Data) ELSE EmptyDict
NewPersonal(Data, Old) ==
    IF "personal" \in DOMAIN Data THEN PersonalFromData(Data) ELSE Old

\* lines 56-58
NewPublicMerges(Data, Old) ==
    IF "public" \in DOMAIN Data
    THEN [k \in DOMAIN Old \cup DOMAIN Data.public |->
            IF k \in DOMAIN Data.public THEN PublicFromData(Data)[k] ELSE Old[k]]
    ELSE Old
NewPublic(Data, Old) ==
    IF "public" \in DOMAIN Data THEN PublicFromData(Data) ELSE Old

UpdateTrusted_L52(Data) ==
    /\ mqttPc = "idle"
    /\ PersonalTrusted' = NewPersonal(Data, PersonalTrusted)
    /\ mqttPc' = "ut_l56"
    /\ mqttData' = Data
    /\ mqttOld' = PersonalTrusted
    /\ UNCHANGED <<now, deauthVars, BLOCKED_BSSIDS, PublicTrusted, AlertedRogues,
                   UnrecognisedSSIDs, seenUnmatched, published, beaconThread, mqttExc,
                   sendpOutcome, transmitted, assessThreads, ev>>

UpdateTrusted_L56 ==
    /\ mqttPc = "ut_l56"
    /\ PublicTrusted' = NewPublic(mqttData, PublicTrusted)
    /\ mqttPc' = "idle"
    /\ mqttData' = EmptyDict
    /\ mqttOld' = EmptyDict
    /\ UNCHANGED <<now, deauthVars, BLOCKED_BSSIDS, PersonalTrusted, AlertedRogues,
                   UnrecognisedSSIDs, seenUnmatched, published, beaconThread, mqttExc,
                   sendpOutcome, transmitted, assessThreads, ev>>

(***************************************************************************)
(* AP Classifier: DetectRogue (RogueAPDetection.py:64-108), run by the     *)
(* beacon sniffer thread.  PersonalTrusted is read at line 75 and again at *)
(* line 76, PublicTrusted at line 89 and again at line 90.                 *)
(***************************************************************************)
PersonalAlert(SSID, BSSID, AllowedBSSIDs) ==
    [alert_type |-> "rogue_ap", network_type |-> "personal", ssid |-> SSID,
     detected_bssid |-> BSSID, expected |-> AllowedBSSIDs]

PublicAlert(SSID, BSSID, DetectedPrefix, AllowedPrefixes) ==
    [alert_type |-> "rogue_ap", network_type |-> "public", ssid |-> SSID,
     detected_bssid |-> BSSID, detected_prefix |-> DetectedPrefix,
     expected_prefixes |-> AllowedPrefixes]

\* line 77: BSSID not in AllowedBSSIDs
PersonalMismatchUnlessPrefixTrusted(BSSID, AllowedBSSIDs) ==
    /\ BSSID \notin Range(AllowedBSSIDs)
    /\ ~ ( /\ beacon.ssid \in DOMAIN PublicTrusted
           /\ GetPrefix(BSSID) \in Range(PublicTrusted[beacon.ssid]) )
PersonalMismatch(BSSID, AllowedBSSIDs) == BSSID \notin Range(AllowedBSSIDs)

\* lines 91-92: GetPrefix(BSSID) not in AllowedPrefixes
PublicMismatchByAddress(BSSID, AllowedPrefixes) == BSSID \notin Range(AllowedPrefixes)
PublicMismatch(BSSID, AllowedPrefixes) == GetPrefix(BSSID) \notin Range(AllowedPrefixes)

\* lines 78, 93: (SSID, BSSID) not in AlertedRogues
NotYetAlertedUnderPersonalRule(SSID, BSSID) ==
    \/ <<SSID, BSSID>> \notin AlertedRogues
    \/ SSID \notin DOMAIN PersonalTrusted
NotYetAlertedNever(SSID, BSSID) == TRUE
NotYetAlerted(SSID, BSSID) == <<SSID, BSSID>> \notin AlertedRogues

\* lines 66-75: decode and normalise, then test SSID in PersonalTrusted
DetectRogue_L66(SSIDRaw, Addr2) ==
    /\ rPc = "sniff"
    /\ Len(published) < MaxPublished
    /\ LET SSID == NormaliseSSID(SSIDRaw)
           BSSID == Lower(Addr2)
       IN /\ beacon' = [ssid |-> SSID, bssid |-> BSSID, pRead |-> PersonalTrusted]
          /\ rPc' = IF SSID \in DOMAIN PersonalTrusted THEN "dr_l76" ELSE "dr_l89"
    /\ UNCHANGED <<now, deauthVars, BLOCKED_BSSIDS, rogueVars, published, mqttThread, ev>>

\* lines 76-87; PersonalTrusted[SSID] raises KeyError when the key has gone,
\* which leaves sniff() and ends StartSniffing at sys.exit(1) (lines 117-119).
DetectRogue_L76 ==
    /\ rPc = "dr_l76"
    /\ beacon' = NoBeacon
    /\ IF beacon.ssid \notin DOMAIN PersonalTrusted
       THEN /\ rPc' = "exited"
            /\ UNCHANGED <<AlertedRogues, published>>
       ELSE LET AllowedBSSIDs == PersonalTrusted[beacon.ssid]
            IN /\ rPc' = "sniff"
               /\ IF /\ PersonalMismatch(beacon.bssid, AllowedBSSIDs)
                     /\ NotYetAlerted(beacon.ssid, beacon.bssid)
                  THEN /\ published' = Publish("alerts/rogue_ap",
                              PersonalAlert(beacon.ssid, beacon.bssid, AllowedBSSIDs))
                       /\ AlertedRogues' = AlertedRogues \cup {<<beacon.ssid, beacon.bssid>>}
                  ELSE UNCHANGED <<AlertedRogues, published>>
    /\ UNCHANGED <<now, deauthVars, BLOCKED_BSSIDS, PersonalTrusted, PublicTrusted,
                   UnrecognisedSSIDs, seenUnmatched, mqttThread, ev>>

\* lines 107-108: if CleanSSID: UnrecognisedSSIDs.add(CleanSSID)
AddUnrecognisedAlways(S, CleanSSID) == S \cup {CleanSSID}
AddUnrecognised(S, CleanSSID) == IF CleanSSID # << >> THEN S \cup {CleanSSID} ELSE S

\* line 89: test SSID in PublicTrusted; lines 104-108 when it is not
DetectRogue_L89 ==
    /\ rPc = "dr_l89"
    /\ IF beacon.ssid \in DOMAIN PublicTrusted
       THEN /\ rPc' = "dr_l90"
            /\ UNCHANGED <<UnrecognisedSSIDs, seenUnmatched, beacon>>
       ELSE LET CleanSSID == NormaliseSSID(beacon.ssid)
            IN /\ rPc' = "sniff"
               /\ beacon' = NoBeacon
               /\ seenUnmatched' = seenUnmatched \cup {beacon.ssid}
               /\ UnrecognisedSSIDs' = AddUnrecognised(UnrecognisedSSIDs, CleanSSID)
    /\ UNCHANGED <<now, deauthVars, BLOCKED_BSSIDS, PersonalTrusted, PublicTrusted,
                   AlertedRogues, published, mqttThread, ev>>

\* lines 90-103
DetectRogue_L90 ==
    /\ rPc = "dr_l90"
    /\ beacon' = NoBeacon
    /\ IF beacon.ssid \notin DOMAIN PublicTrusted
       THEN /\ rPc' = "exited"
            /\ UNCHANGED <<AlertedRogues, published>>
       ELSE LET AllowedPrefixes == PublicTrusted[beacon.ssid]
                DetectedPrefix == GetPrefix(beacon.bssid)
            IN /\ rPc' = "sniff"
               /\ IF /\ PublicMismatch(beacon.bssid, AllowedPrefixes)
                     /\ NotYetAlerted(beacon.ssid, beacon.bssid)
                  THEN /\ published' = Publish("alerts/rogue_ap",
                              PublicAlert(beacon.ssid, beacon.bssid, DetectedPrefix,
                                          AllowedPrefixes))
                       /\ AlertedRogues' = AlertedRogues \cup {<<beacon.ssid, beacon.bssid>>}
                  ELSE UNCHANGED <<AlertedRogues, published>>
    /\ UNCHANGED <<now, deauthVars, BLOCKED_BSSIDS, PersonalTrusted, PublicTrusted,
                   UnrecognisedSSIDs, seenUnmatched, mqttThread, ev>>

(***************************************************************************)
(* RogueAPDetection.StartSniffing (lines 110-127): the end of sniffing.    *)
(***************************************************************************)
\* list(UnrecognisedSSIDs): the elements of the set, in the set's own order.
ListsOfStillUntrusted(S) ==
    LET U == {x \in S : x \notin DOMAIN PersonalTrusted \cup DOMAIN PublicTrusted}
    IN {l \in [1..Cardinality(U) -> U] : \A i, j \in DOMAIN l : i # j => l[i] # l[j]}
ListsOf(S) ==
    {l \in [1..Cardinality(S) -> S] : \A i, j \in DOMAIN l : i # j => l[i] # l[j]}

UnrecognisedAlert(SSIDList) == [alert_type |-> "unrecognised_aps", ssids |-> SSIDList]

\* line 121: if UnrecognisedSSIDs:
FlushNeededAlways(S) == TRUE
FlushNeeded(S) == S # {}

\* sniff() returns, or is interrupted (lines 115-116); then lines 120-127
SniffReturn ==
    /\ rPc = "sniff"
    /\ rPc' = "stopped"
    /\ IF FlushNeeded(UnrecognisedSSIDs)
       THEN \E l \in ListsOf(UnrecognisedSSIDs) :
               published' = Publish("alerts/rogue_ap", UnrecognisedAlert(l))
       ELSE UNCHANGED published
    /\ UNCHANGED <<now, deauthVars, BLOCKED_BSSIDS, rogueVars, beacon, mqttThread, ev>>

\* sniff() raises (lines 117-119): sys.exit(1) ends the thread before line 120
SniffError ==
    /\ rPc = "sniff"
    /\ rPc' = "exited"
    /\ UNCHANGED <<now, deauthVars, BLOCKED_BSSIDS, rogueVars, published, beacon,
                   mqttThread, ev>>

(***************************************************************************)
(* SpecRogue: the beacon sniffer and the trust-update commands.            *)
(***************************************************************************)
NextRogue ==
    \/ \E s \in BeaconSSIDs, b \in BeaconBSSIDs : DetectRogue_L66(s, b)
    \/ DetectRogue_L76
    \/ DetectRogue_L89
    \/ DetectRogue_L90
    \/ SniffReturn
    \/ SniffError
    \/ \E Data \in TrustCmds : UpdateTrusted_L52(Data)
    \/ UpdateTrusted_L56

SpecRogue == Init /\ [][NextRogue]_vars

\* SpecOrder: one SSID that the commands make a key of both mappings, with a
\* public entry that allows the prefix of EvilAP or only that of CafeAP.
OrderCmds ==
    {[personal |-> Home :> <<HomeAP>>, public |-> Home :> <<HomeAP>>],
     [personal |-> Home :> <<HomeAP>>, public |-> Home :> <<CafeAP>>],
     [personal |-> EmptyDict]}

NextOrder ==
    \/ \E b \in BeaconBSSIDs : DetectRogue_L66(Home, b)
    \/ DetectRogue_L76
    \/ DetectRogue_L89
    \/ DetectRogue_L90
    \/ \E Data \in OrderCmds : UpdateTrusted_L52(Data)
    \/ UpdateTrusted_L56

SpecOrder == Init /\ [][NextOrder]_vars

\* SpecCase: trust-update commands whose addresses are written in upper
\* case, in mixed case and in lower case, one of them with two octets only.
MixedAP == <<"AA", "bb", "CC", "dd", "EE", "ff">>
ShortAP == <<"AA", "BB">>

CasePersonal == {EmptyDict, Home :> <<HomeAPUpper>>, Home :> <<MixedAP, CafeAP>>}
CasePublic == {EmptyDict, Cafe :> <<HomeAPUpper>>, Cafe :> <<MixedAP, ShortAP>>}
CaseCmds ==
    {EmptyDict}
      \cup {[personal |-> p] : p \in CasePersonal}
      \cup {[public |-> q] : q \in CasePublic}
      \cup {[personal |-> p, public |-> q] : p \in CasePersonal, q \in CasePublic}

NextCase ==
    \/ \E Data \in CaseCmds : UpdateTrusted_L52(Data)
    \/ UpdateTrusted_L56

SpecCase == Init /\ [][NextCase]_vars

\* SpecVariant: SSIDs and trust-update keys in variant forms: padded with
\* white space and U+0000, and with the apostrophe as ', as U+2019 and as the
\* three characters of the literal of line 21.
Joes == <<"J", "apos", "s">>
JoesCurly == <<"J", "rsquo", "s">>
JoesLiteral == <<"J", "acirc", "euro", "tm", "s">>

VariantSSIDs == {Home, HomePadded, Joes, JoesCurly, JoesLiteral}

VariantCmds ==
    {[personal |-> HomePadded :> <<HomeAP>>],
     [personal |-> Joes :> <<HomeAP>>],
     [public |-> Home :> <<HomeAP>>]}

NextVariant ==
    \/ \E ssid \in VariantSSIDs : DetectRogue_L66(ssid, HomeAP)
    \/ DetectRogue_L76
    \/ DetectRogue_L89
    \/ DetectRogue_L90
    \/ \E Data \in VariantCmds : UpdateTrusted_L52(Data)
    \/ UpdateTrusted_L56

SpecVariant == Init /\ [][NextVariant]_vars

(***************************************************************************)
(* Python dict helpers                                                     *)
(***************************************************************************)
\* d[k] = v
DictSet(d, k, v) == [x \in DOMAIN d \cup {k} |-> IF x = k THEN v ELSE d[x]]
\* del d[k]
DictDelAll(d, k) == EmptyDict
DictDelKeeps(d, k) == d
DictDel(d, k) == [x \in DOMAIN d \ {k} |-> d[x]]
\* d.get(k, default)
DictGet(d, k, default) == IF k \in DOMAIN d THEN d[k] ELSE default

(***************************************************************************)
(* Flood Detector: DetectDeauth (DeauthDetection.py:36-71), run by the     *)
(* de-auth sniffer thread.  A record is the tuple (T, A).                  *)
(***************************************************************************)
D1 == "00:00:00:00:00:d1"
D2 == "00:00:00:00:00:d2"
A1 == "00:00:00:00:00:a1"
A2 == "00:00:00:00:00:a2"
\* the address of A1 as a dashboard may write it in a block command
A1Upper == "00:00:00:00:00:A1"
\* addr1 of the frames that BlockRogueAP sends (MQTTHelper.py:106)
Broadcast == "ff:ff:ff:ff:ff:ff"

Secs(n) == n * TicksPerSec

\* line 44: Attacker in BLOCKED_BSSIDS and (CurrentTime - BLOCKED_BSSIDS[Attacker] < 30)
BlockedThroughCooldownEnd(Attacker, CurrentTime) ==
    /\ Attacker \in DOMAIN BLOCKED_BSSIDS
    /\ CurrentTime - BLOCKED_BSSIDS[Attacker] <= Secs(BlockCooldown)
BlockedUntilOneTickEarlier(Attacker, CurrentTime) ==
    /\ Attacker \in DOMAIN BLOCKED_BSSIDS
    /\ CurrentTime - BLOCKED_BSSIDS[Attacker] < Secs(BlockCooldown) - 1
Blocked(Attacker, CurrentTime) ==
    /\ Attacker \in DOMAIN BLOCKED_BSSIDS
    /\ CurrentTime - BLOCKED_BSSIDS[Attacker] < Secs(BlockCooldown)

\* line 53: [(T, A) for (T, A) in Records if CurrentTime - T <= TimeWindow]
PruneExclusive(Records, CurrentTime) ==
    SelectSeq(Records, LAMBDA r : CurrentTime - r[1] < Secs(TimeWindow))
PruneNothing(Records, CurrentTime) == Records
Prune(Records, CurrentTime) ==
    SelectSeq(Records, LAMBDA r : CurrentTime - r[1] <= Secs(TimeWindow))

\* lines 62-64: Counter(AttackerList).most_common(1): the highest count, the
\* first one inserted among equals; "Unknown" for an empty list.
CountOf(AttackerList, A) == Cardinality({i \in DOMAIN AttackerList : AttackerList[i] = A})
MostCommonLastOfTied(Records) ==
    LET AttackerList == [i \in DOMAIN Records |-> Records[i][2]]
    IN IF AttackerList = << >> THEN "Unknown"
       ELSE LET best == CHOOSE i \in DOMAIN AttackerList :
                    /\ \A j \in DOMAIN AttackerList :
                          CountOf(AttackerList, AttackerList[j])
                             <= CountOf(AttackerList, AttackerList[i])
                    /\ \A j \in (i + 1)..Len(AttackerList) :
                          CountOf(AttackerList, AttackerList[j])
                             < CountOf(AttackerList, AttackerList[i])
            IN AttackerList[best]
MostCommon(Records) ==
    LET AttackerList == [i \in DOMAIN Records |-> Records[i][2]]
    IN IF AttackerList = << >> THEN "Unknown"
       ELSE LET best == CHOOSE i \in DOMAIN AttackerList :
                    /\ \A j \in DOMAIN AttackerList :
                          CountOf(AttackerList, AttackerList[j])
                             <= CountOf(AttackerList, AttackerList[i])
                    /\ \A j \in 1..(i - 1) :
                          CountOf(AttackerList, AttackerList[j])
                             < CountOf(AttackerList, AttackerList[i])
            IN AttackerList[best]

\* line 65: Destination not in LastAlertTime or (CurrentTime - LastAlertTime[Destination]) >= 1
AlertDueSinceLastFrame(Destination, CurrentTime) ==
    \/ Destination \notin DOMAIN LastAlertTime
    \/ Destination \notin DOMAIN DeauthRecords
    \/ DeauthRecords[Destination] = << >>
    \/ CurrentTime - DeauthRecords[Destination][Len(DeauthRecords[Destination])][1]
           >= Secs(AlertInterval)
AlertDueAlways(Destination, CurrentTime) == TRUE
AlertDue(Destination, CurrentTime) ==
    \/ Destination \notin DOMAIN LastAlertTime
    \/ CurrentTime - LastAlertTime[Destination] >= Secs(AlertInterval)

\* lines 23-32; the timestamp is formatted to the second
DeauthAlert(Destination, Count, AttackerMAC, MaxCount) ==
    [alert_type |-> "deauth_attack", destination |-> Destination,
     frame_count |-> Count, max_frame_count |-> MaxCount,
     most_frequent_attacker |-> AttackerMAC, spoofed |-> TRUE,
     time_window |-> TimeWindow, timestamp |-> now \div TicksPerSec]

\* lines 57-58: the stored maximum is replaced when there is none or the
\* count exceeds it
NewMaxCountIsCount(Destination, Count) == Count
NewMaxCount(Destination, Count) ==
    IF \/ Destination \notin DOMAIN MaxDeauthCounts
       \/ Count > MaxDeauthCounts[Destination]
    THEN Count ELSE MaxDeauthCounts[Destination]

\* line 67: LastAlertTime[Destination] = CurrentTime
RecordAlertTimeKeepsFirst(Destination, CurrentTime) ==
    IF Destination \in DOMAIN LastAlertTime THEN LastAlertTime
    ELSE DictSet(LastAlertTime, Destination, CurrentTime)
RecordAlertTime(Destination, CurrentTime) ==
    DictSet(LastAlertTime, Destination, CurrentTime)

\* lines 44-45: the return leaves every window as it is
SuppressedRecordsPruned(Destination, CurrentTime) ==
    IF Destination \in DOMAIN DeauthRecords
    THEN DictSet(DeauthRecords, Destination, Prune(DeauthRecords[Destination], CurrentTime))
    ELSE DeauthRecords
SuppressedRecords(Destination, CurrentTime) == DeauthRecords

\* history: the frame is one that the sendp() in hand put on the air
\* (MQTTHelper.py:106-109: to broadcast, from RogueBSSID)
SentNow(Destination, Attacker) ==
    IF mqttPc = "sendp" /\ Destination = Broadcast /\ Attacker = mqttData.RogueBSSID
    THEN ev.sent + 1 ELSE ev.sent

DetectDeauth(Destination, Attacker) ==
    LET CurrentTime == now
    IN
    /\ UNCHANGED <<now, BLOCKED_BSSIDS, rogueVars, beaconThread, mqttThread>>
    /\ IF Blocked(Attacker, CurrentTime)
       THEN /\ ev' = [ev EXCEPT !.n = @ + 1, !.dst = Destination, !.src = Attacker,
                                !.t = CurrentTime, !.counted = FALSE,
                                !.sent = SentNow(Destination, Attacker)]
            /\ DeauthRecords' = SuppressedRecords(Destination, CurrentTime)
            /\ UNCHANGED <<MaxDeauthCounts, LastAlertTime, published>>
       ELSE LET Appended == Append(DictGet(DeauthRecords, Destination, << >>),
                                   <<CurrentTime, Attacker>>)
                Records == Prune(Appended, CurrentTime)
                Count == Len(Records)
                MaxCount == NewMaxCount(Destination, Count)
            IN /\ ev' = [ev EXCEPT !.n = @ + 1, !.dst = Destination, !.src = Attacker,
                                   !.t = CurrentTime, !.counted = TRUE,
                                   !.sent = SentNow(Destination, Attacker)]
               /\ DeauthRecords' = DictSet(DeauthRecords, Destination, Records)
               /\ MaxDeauthCounts' = DictSet(MaxDeauthCounts, Destination, MaxCount)
               /\ IF Count >= Threshold
                  THEN IF AlertDue(Destination, CurrentTime)
                       THEN /\ published' = Publish("alerts/deauth",
                                   DeauthAlert(Destination, Count, MostCommon(Records),
                                               MaxCount))
                            /\ LastAlertTime' = RecordAlertTime(Destination, CurrentTime)
                       ELSE UNCHANGED <<LastAlertTime, published>>
                  ELSE /\ LastAlertTime' = DictDel(LastAlertTime, Destination)
                       /\ UNCHANGED published

\* time.time() moves on by k ticks
Tick(k) ==
    /\ now' = now + k
    /\ ev' = [ev EXCEPT !.ticks = @ + 1]
    /\ UNCHANGED <<deauthVars, BLOCKED_BSSIDS, rogueVars, published, beaconThread,
                   mqttThread>>

(***************************************************************************)
(* Block Coordinator: BlockCallback and BlockRogueAP (MQTTHelper.py:96-130)*)
(* run by the MQTT loop thread.  sendp() takes Count * 0.1 s, during which *)
(* the sniffer threads run; BLOCKED_BSSIDS is written after it returns.    *)
(***************************************************************************)
None == "None"
TruthyUnlessMissing(v) == v # None
Truthy(v) == v # None /\ v # ""

BlockCmds == {[target_bssid |-> A1], EmptyDict,
              [target_bssid |-> A2, interface |-> "wlan0", count |-> 3]}

\* lines 123-130, and lines 105-109 up to the call of sendp
BlockCallback(Data) ==
    /\ mqttPc = "idle"
    /\ IF Truthy(DictGet(Data, "target_bssid", None))
       THEN /\ mqttPc' = "sendp"
            /\ mqttData' = [RogueBSSID |-> Data.target_bssid,
                            Iface |-> DictGet(Data, "interface", "wlan1"),
                            Count |-> DictGet(Data, "count", DefaultCount)]
            /\ ev' = [ev EXCEPT !.blocks = @ + 1, !.sent = 0]
       ELSE /\ UNCHANGED <<mqttPc, mqttData>>
            /\ ev' = [ev EXCEPT !.blocks = @ + 1]
    /\ UNCHANGED <<now, deauthVars, BLOCKED_BSSIDS, rogueVars, published, beaconThread,
                   mqttExc, mqttOld, sendpOutcome, transmitted, assessThreads>>

\* lines 110-113: sendp returned; BLOCKED_BSSIDS[RogueBSSID] = time.time()
RecordBlockKeepsFirst(Records, RogueBSSID, CurrentTime) ==
    IF RogueBSSID \in DOMAIN Records THEN Records
    ELSE DictSet(Records, RogueBSSID, CurrentTime)
RecordBlockAlone(Records, RogueBSSID, CurrentTime) == RogueBSSID :> CurrentTime
RecordBlockLowerCased(Records, RogueBSSID, CurrentTime) ==
    DictSet(Records, IF RogueBSSID = A1Upper THEN A1 ELSE RogueBSSID, CurrentTime)
RecordBlock(Records, RogueBSSID, CurrentTime) == DictSet(Records, RogueBSSID, CurrentTime)

SendpReturn ==
    /\ mqttPc = "sendp"
    /\ BLOCKED_BSSIDS' = RecordBlock(BLOCKED_BSSIDS, mqttData.RogueBSSID, now)
    /\ mqttPc' = "idle"
    /\ mqttData' = EmptyDict
    /\ sendpOutcome' = "returned"
    /\ ev' = [ev EXCEPT !.prev = DictGet(BLOCKED_BSSIDS, mqttData.RogueBSSID, -1)]
    /\ UNCHANGED <<now, deauthVars, rogueVars, published, beaconThread, mqttExc,
                   mqttOld, transmitted, assessThreads>>

\* sendp raised: the exception leaves BlockRogueAP, BlockCallback and OnMessage
\* (no handler in lines 63-71, 96-130); the loop thread goes on or ends with it.
\* line 113 is not reached
RecordBlockBeforeSendp(Records, RogueBSSID, CurrentTime) ==
    DictSet(Records, RogueBSSID, CurrentTime)
BlockLeftByRaise(Records, RogueBSSID, CurrentTime) == Records

SendpRaise(goesOn) ==
    /\ mqttPc = "sendp"
    /\ BLOCKED_BSSIDS' = BlockLeftByRaise(BLOCKED_BSSIDS, mqttData.RogueBSSID, now)
    /\ mqttExc' = Append(mqttExc, [in |-> "BlockRogueAP", target |-> mqttData.RogueBSSID])
    /\ mqttPc' = IF goesOn THEN "idle" ELSE "ended"
    /\ mqttData' = EmptyDict
    /\ sendpOutcome' = "raised"
    /\ UNCHANGED <<now, deauthVars, rogueVars, published, beaconThread, mqttOld,
                   transmitted, assessThreads, ev>>

\* Client.publish (line 87) called from another thread queues the message; the
\* thread started by Client.loop_start() (line 46) writes it to the broker.
\* That thread is also the one that calls OnMessage (line 35), and OnMessage
\* calls the command callback itself (line 71): the thread writes nothing
\* while a callback is running, and nothing once it has ended or has been
\* stopped (line 91).
Transmit ==
    /\ mqttPc = "idle"
    /\ transmitted < Len(published)
    /\ transmitted' = transmitted + 1
    /\ UNCHANGED <<now, deauthVars, BLOCKED_BSSIDS, rogueVars, published, beaconThread,
                   mqttPc, mqttData, mqttExc, mqttOld, sendpOutcome, assessThreads, ev>>

(***************************************************************************)
(* On-demand assessments.  RunAssessmentCallback (MQTTHelper.py:133-157),  *)
(* run by the MQTT loop thread, starts a thread that runs                  *)
(* PasswordAssessment.Main or ProtocolAssessment.Main; the thread          *)
(* publishes its result, if it has one, and ends.                          *)
(***************************************************************************)
\* a thread that has begun Main, and one in the time.sleep(2) at its end
InMain == [pc |-> "main", wake |-> 0]
Asleep == [pc |-> "sleep", wake |-> now + Secs(AssessSleep)]

\* str.lower() on the values of assessment_type that the commands carry
LowerType(v) == IF v = "Protocol" THEN "protocol" ELSE v

AssessmentCmds ==
    {EmptyDict, [assessment_type |-> "Protocol"], [assessment_type |-> "password"],
     [assessment_type |-> "speed"]}

\* lines 139-155
RunAssessmentCallback(Data) ==
    /\ mqttPc = "idle"
    /\ LET assessment_type == LowerType(DictGet(Data, "assessment_type", ""))
       IN IF assessment_type \in {"protocol", "password"}
          THEN /\ assessments' = Append(assessments, assessment_type)
               /\ assessPc' = Append(assessPc, InMain)
          ELSE UNCHANGED assessThreads
    /\ ev' = [ev EXCEPT !.runs = @ + 1]
    /\ UNCHANGED <<now, deauthVars, BLOCKED_BSSIDS, rogueVars, published, beaconThread,
                   mqttPc, mqttData, mqttExc, mqttOld, sendpOutcome, transmitted>>

\* the sequence without its i-th element
Without(q, i) == SubSeq(q, 1, i - 1) \o SubSeq(q, i + 1, Len(q))

\* A password is the sequence of the classes of its characters: "lower",
\* "upper", "digit", "special" (one of the characters of line 40), "other".
\* PasswordAssessment.AssessComplexity (lines 9-52)
AssessComplexity(PSK) ==
    LET Has(c) == \E i \in DOMAIN PSK : PSK[i] = c
        Point(b) == IF b THEN 1 ELSE 0
        Advice(b, text) == IF b THEN << >> ELSE <<text>>
        Score == (IF Len(PSK) >= 16 THEN 2 ELSE IF Len(PSK) >= 12 THEN 1 ELSE 0)
                   + Point(Has("lower")) + Point(Has("upper"))
                   + Point(Has("digit")) + Point(Has("special"))
    IN [Strength |-> IF Score >= 6 THEN "Strong"
                     ELSE IF Score >= 4 THEN "Moderate" ELSE "Weak",
        Recommendations |->
            Advice(Len(PSK) >= 12,
                   "Increase password length (at least 12-16 characters).")
              \o Advice(Has("lower"), "Include lowercase letters.")
              \o Advice(Has("upper"), "Include uppercase letters.")
              \o Advice(Has("digit"), "Include numbers.")
              \o Advice(Has("special"),
                        "Include special characters (e.g., !@#$%^&*).")]

PwShort == <<"lower", "lower", "digit">>
PwMedium == [i \in 1..12 |-> IF i = 1 THEN "upper" ELSE IF i = 2 THEN "digit" ELSE "lower"]
PwLong == [i \in 1..16 |-> IF i = 1 THEN "upper" ELSE IF i = 2 THEN "digit"
                           ELSE IF i = 3 THEN "special" ELSE "lower"]

\* The configuration file that ReadWiFiConfig (lines 54-79) finds: absent, or
\* with these ssid= and password= lines.
WiFiConfigs ==
    {[exists |-> FALSE, lines |-> EmptyDict],
     [exists |-> TRUE, lines |-> [ssid |-> Home]],
     [exists |-> TRUE, lines |-> [ssid |-> Home, password |-> << >>]],
     [exists |-> TRUE, lines |-> [ssid |-> Home, password |-> PwShort]],
     [exists |-> TRUE, lines |-> [ssid |-> Home, password |-> PwMedium]],
     [exists |-> TRUE, lines |-> [ssid |-> Home, password |-> PwLong]]}

\* lines 61-63, 75-77: sys.exit(1)
ConfigUsable(Config) ==
    /\ Config.exists
    /\ {"ssid", "password"} \subseteq DOMAIN Config.lines
    /\ Config.lines.ssid # << >>
    /\ Config.lines.password # << >>

\* lines 88-93
PasswordResult(SSID, PSK) ==
    [ssid |-> SSID, strength |-> AssessComplexity(PSK).Strength,
     recommendations |-> AssessComplexity(PSK).Recommendations,
     timestamp |-> now \div TicksPerSec]

\* PasswordAssessment.Main (lines 81-108) up to the time.sleep(2) of line
\* 108, in its own thread; sys.exit(1) in ReadWiFiConfig ends the thread alone
PasswordAssessmentMain(Config) ==
    /\ \E i \in DOMAIN assessments :
          /\ assessments[i] = "password"
          /\ assessPc[i].pc = "main"
          /\ IF ConfigUsable(Config)
             THEN /\ published' = Publish("alerts/password_assessment",
                         PasswordResult(Config.lines.ssid, Config.lines.password))
                  /\ assessPc' = [assessPc EXCEPT ![i] = Asleep]
                  /\ UNCHANGED assessments
             ELSE /\ assessments' = Without(assessments, i)
                  /\ assessPc' = Without(assessPc, i)
                  /\ UNCHANGED published
    /\ UNCHANGED <<now, deauthVars, BLOCKED_BSSIDS, rogueVars, beaconThread,
                   mqttPc, mqttData, mqttExc, mqttOld, sendpOutcome, transmitted, ev>>

\* " ".join(ESSID.split()) (ProtocolAssessment.py:90)
RECURSIVE JoinRuns(_)
JoinRuns(s) ==
    IF s = << >> THEN << >>
    ELSE IF s[1] \in Whitespace THEN <<"sp">> \o JoinRuns(LStrip(s))
         ELSE <<s[1]>> \o JoinRuns(Tail(s))
JoinSplit(s) == JoinRuns(Strip(s))

\* str.upper() on the words of the Privacy and Cipher columns
UpperWord(w) ==
    CASE w = "opn" -> "OPN" [] w = "wep" -> "WEP" [] w = "wpa2" -> "WPA2"
      [] w = "ccmp tkip" -> "CCMP TKIP" [] OTHER -> w

\* ProtocolAssessment.ClassifyNetwork (lines 44-62)
ClassifyNetwork(Privacy, Cipher, Auth) ==
    LET P == UpperWord(Privacy)
        C == UpperWord(Cipher)
    IN IF P = "OPN" THEN "Insecure, open (no encryption)"
       ELSE IF P = "WEP" THEN "Insecure, uses WEP"
       ELSE IF P \in {"WPA", "WPA2", "WPA3", "WPA2 WPA"}
            THEN IF C \in {"TKIP", "CCMP TKIP"}
                 THEN "Insecure, uses WPA with TKIP"
                 ELSE "Secure (WPA2/WPA3)"
       ELSE "Unknown encryption"

\* ProtocolAssessment.ParseCSV (lines 14-42) on the rows of 14 columns or
\* more: those whose first column is an address and whose ESSID, stripped,
\* is not empty, the first row of each ESSID; in the order of the file
RECURSIVE ParseRows(_, _)
ParseRows(Rows, Networks) ==
    IF Rows = << >> THEN Networks
    ELSE LET Row == Rows[1]
             ESSID == Strip(Row.essid)
         IN ParseRows(Tail(Rows),
               IF /\ Row.mac
                  /\ ESSID # << >>
                  /\ \A i \in DOMAIN Networks : Networks[i].ESSID # ESSID
               THEN Append(Networks, [ESSID |-> ESSID, Privacy |-> Row.privacy,
                                      Cipher |-> Row.cipher,
                                      Authentication |-> Row.auth])
               ELSE Networks)
ParseCSV(Rows) == ParseRows(Rows, << >>)

\* ProtocolAssessment.GetProtocolAssessment (lines 83-96): of two networks
\* whose ESSIDs collapse to the same key, the later one stays
GetProtocolAssessment(Networks) ==
    [k \in {JoinSplit(Networks[i].ESSID) : i \in DOMAIN Networks} |->
        LET last == CHOOSE i \in DOMAIN Networks :
                       /\ JoinSplit(Networks[i].ESSID) = k
                       /\ \A j \in (i + 1)..Len(Networks) :
                             JoinSplit(Networks[j].ESSID) # k
        IN ClassifyNetwork(Networks[last].Privacy, Networks[last].Cipher,
                           Networks[last].Authentication)]

TwoWords == <<"H", "sp", "W">>
TwoWordsWide == <<"H", "sp", "sp", "W">>

\* What airodump-ng left in capture-01.csv: no file, or these rows.
Captures ==
    {[exists |-> FALSE, rows |-> << >>],
     [exists |-> TRUE, rows |-> << >>],
     [exists |-> TRUE,
      rows |-> <<[mac |-> FALSE, essid |-> Home, privacy |-> "WEP", cipher |-> "WEP",
                  auth |-> ""]>>],
     [exists |-> TRUE,
      rows |-> <<[mac |-> TRUE, essid |-> HomePadded, privacy |-> "wpa2",
                  cipher |-> "CCMP", auth |-> "PSK"],
                 [mac |-> TRUE, essid |-> Cafe, privacy |-> "opn", cipher |-> "",
                  auth |-> ""]>>],
     [exists |-> TRUE,
      rows |-> <<[mac |-> TRUE, essid |-> TwoWords, privacy |-> "WPA2 WPA",
                  cipher |-> "ccmp tkip", auth |-> "PSK"],
                 [mac |-> TRUE, essid |-> TwoWordsWide, privacy |-> "wep",
                  cipher |-> "WEP", auth |-> ""],
                 [mac |-> TRUE, essid |-> TwoWords, privacy |-> "WPA3",
                  cipher |-> "CCMP", auth |-> "SAE"],
                 [mac |-> TRUE, essid |-> Unknown1, privacy |-> "", cipher |-> "",
                  auth |-> ""]>>]}

\* ProtocolAssessment.Main (lines 98-127) up to the time.sleep(2) of line
\* 127, in its own thread; open() of a missing capture file (line 20) raises
\* and ends the thread alone
ProtocolAssessmentMain(Capture) ==
    /\ \E i \in DOMAIN assessments :
          /\ assessments[i] = "protocol"
          /\ assessPc[i].pc = "main"
          /\ IF Capture.exists
             THEN /\ IF ParseCSV(Capture.rows) # << >>
                     THEN published' = Publish("alerts/protocol_assessment",
                                 GetProtocolAssessment(ParseCSV(Capture.rows)))
                     ELSE UNCHANGED published
                  /\ assessPc' = [assessPc EXCEPT ![i] = Asleep]
                  /\ UNCHANGED assessments
             ELSE /\ assessments' = Without(assessments, i)
                  /\ assessPc' = Without(assessPc, i)
                  /\ UNCHANGED published
    /\ UNCHANGED <<now, deauthVars, BLOCKED_BSSIDS, rogueVars, beaconThread,
                   mqttPc, mqttData, mqttExc, mqttOld, sendpOutcome, transmitted, ev>>

\* time.sleep(2) returns (PasswordAssessment.py:108, ProtocolAssessment.py:127)
\* and the thread ends
AssessmentEnd ==
    /\ \E i \in DOMAIN assessments :
          /\ assessPc[i].pc = "sleep"
          /\ now >= assessPc[i].wake
          /\ assessments' = Without(assessments, i)
          /\ assessPc' = Without(assessPc, i)
    /\ UNCHANGED <<now, deauthVars, BLOCKED_BSSIDS, rogueVars, published, beaconThread,
                   mqttPc, mqttData, mqttExc, mqttOld, sendpOutcome, transmitted, ev>>

\* MQTTHelper.disconnect (lines 90-93), called by Main (Main.py:86):
\* loop_stop() waits for the callback in hand and ends the loop thread
Disconnect ==
    /\ mqttPc = "idle"
    /\ mqttPc' = "disconnected"
    /\ UNCHANGED <<now, deauthVars, BLOCKED_BSSIDS, rogueVars, published, beaconThread,
                   mqttData, mqttExc, mqttOld, sendpOutcome, transmitted, assessThreads, ev>>

(***************************************************************************)
(* Specifications of the flood detector and the block coordinator          *)
(***************************************************************************)
\* SpecBurst: one attacker floods one destination; every timing of up to
\* BurstFrames frames within BurstTicks ticks.
NextBurst ==
    \/ ev.n < BurstFrames /\ DetectDeauth(D1, A1)
    \/ now < BurstTicks /\ Tick(1)

SpecBurst == Init /\ [][NextBurst]_vars

\* SpecWindow: frames for two destinations while the clock runs past the
\* time window.
NextWindow ==
    \/ ev.n < WindowFrames /\ \E d \in {D1, D2} : DetectDeauth(d, A1)
    \/ now < Secs(TimeWindow) + WindowSlack /\ Tick(1)

SpecWindow == Init /\ [][NextWindow]_vars

\* SpecBlock starts in the state reached from Init by FloodFrames calls
\* DetectDeauth(D1, A1) at time 0: A1 is one frame short of the threshold.
FloodFrames == Threshold - 1

InitFlooded ==
    /\ now = 0
    /\ DeauthRecords = D1 :> [i \in 1..FloodFrames |-> <<0, A1>>]
    /\ MaxDeauthCounts = D1 :> FloodFrames
    /\ LastAlertTime = EmptyDict
    /\ BLOCKED_BSSIDS = EmptyDict
    /\ PersonalTrusted = EmptyDict
    /\ PublicTrusted = EmptyDict
    /\ AlertedRogues = {}
    /\ UnrecognisedSSIDs = {}
    /\ published = << >>
    /\ rPc = "sniff"
    /\ beacon = NoBeacon
    /\ mqttPc = "idle"
    /\ mqttData = EmptyDict
    /\ mqttExc = << >>
    /\ assessments = << >>
    /\ assessPc = << >>
    /\ mqttOld = EmptyDict
    /\ sendpOutcome = "none"
    /\ transmitted = Len(published)
    /\ seenUnmatched = {}
    /\ ev = [n |-> FloodFrames, dst |-> D1, src |-> A1, t |-> 0, counted |-> TRUE,
             ticks |-> 0, blocks |-> 0, prev |-> -1,
             sent |-> 0, runs |-> 0]

NextBlock ==
    \/ ev.n < FloodFrames + BlockFrames
          /\ \E d \in {D1, D2}, a \in {A1, A2} : DetectDeauth(d, a)
    \/ ev.ticks < BlockAdvances
          /\ \E k \in {1, Secs(BlockCooldown) - 1} : Tick(k)
    \/ ev.blocks < BlockCommands /\ \E Data \in BlockCmds : BlockCallback(Data)
    \/ SendpReturn
    \/ \E goesOn \in BOOLEAN : SendpRaise(goesOn)

SpecBlock == InitFlooded /\ [][NextBlock]_vars

\* Main.py:67-74 start one thread per sniffer, so DetectDeauth and DetectRogue
\* take their steps whatever the MQTT loop thread is doing.
DeauthThread == \E a \in {A1, A2} : DetectDeauth(D1, a)

BeaconThread ==
    \/ \E s \in {Home, Cafe}, b \in {HomeAP, EvilAP} : DetectRogue_L66(s, b)
    \/ DetectRogue_L76
    \/ DetectRogue_L89
    \/ DetectRogue_L90

\* SpecStall: after A1's flood of FloodFrames frames, a trust update and a
\* block of A2 are delivered; frames and beacons arrive before, during and
\* after the block, and the loop thread writes the queued alerts when it is
\* not inside a callback.
StallTrust == [personal |-> Home :> <<HomeAP>>, public |-> Cafe :> <<CafeAP>>]

NextStall ==
    \/ ev.blocks = 0 /\ UpdateTrusted_L52(StallTrust)
    \/ UpdateTrusted_L56
    \/ ev.blocks < StallCommands /\ BlockCallback([target_bssid |-> A2])
    \/ SendpReturn
    \/ \E goesOn \in BOOLEAN : SendpRaise(goesOn)
    \/ ev.n < FloodFrames + StallFrames /\ DeauthThread
    \/ BeaconThread
    \/ Transmit
    \/ now < StallTicks /\ Tick(1)

SpecStall == InitFlooded /\ [][NextStall]_vars

\* SpecSkew: time.time() is the wall clock, which a time-setting service can
\* move backwards between two frames.  The clock starts past one window and
\* steps by one tick or by a whole window, either way.
SkewJumps == {1, -1, Secs(TimeWindow), -(Secs(TimeWindow) + 2)}

InitSkew ==
    /\ now = Secs(TimeWindow) + 2
    /\ DeauthRecords = EmptyDict
    /\ MaxDeauthCounts = EmptyDict
    /\ LastAlertTime = EmptyDict
    /\ BLOCKED_BSSIDS = EmptyDict
    /\ PersonalTrusted = EmptyDict
    /\ PublicTrusted = EmptyDict
    /\ AlertedRogues = {}
    /\ UnrecognisedSSIDs = {}
    /\ published = << >>
    /\ rPc = "sniff"
    /\ beacon = NoBeacon
    /\ mqttPc = "idle"
    /\ mqttData = EmptyDict
    /\ mqttExc = << >>
    /\ assessments = << >>
    /\ assessPc = << >>
    /\ mqttOld = EmptyDict
    /\ sendpOutcome = "none"
    /\ transmitted = Len(published)
    /\ seenUnmatched = {}
    /\ ev = NoEvent

NextSkew ==
    \/ ev.n < SkewFrames /\ \E a \in {A1, A2} : DetectDeauth(D1, a)
    \/ ev.ticks < SkewSteps
          /\ \E k \in SkewJumps : now + k >= 0 /\ Tick(k)

SpecSkew == InitSkew /\ [][NextSkew]_vars

\* SpecTie: two attackers share the window of D1.  A2 sent one frame at time
\* 0 and, two alert intervals later, A1 and A2 sent TieLoad - 1 frames in
\* turn, A1 first; then frames of either attacker arrive, and the clock steps
\* by one alert interval or by the rest of the window.
TieLoad == Threshold - 2
TieLoadTime == 2 * Secs(AlertInterval)

InitTied ==
    /\ now = TieLoadTime
    /\ DeauthRecords =
          D1 :> [i \in 1..TieLoad |->
                    IF i = 1 THEN <<0, A2>>
                    ELSE <<TieLoadTime, IF i % 2 = 0 THEN A1 ELSE A2>>]
    /\ MaxDeauthCounts = D1 :> TieLoad
    /\ LastAlertTime = EmptyDict
    /\ BLOCKED_BSSIDS = EmptyDict
    /\ PersonalTrusted = EmptyDict
    /\ PublicTrusted = EmptyDict
    /\ AlertedRogues = {}
    /\ UnrecognisedSSIDs = {}
    /\ published = << >>
    /\ rPc = "sniff"
    /\ beacon = NoBeacon
    /\ mqttPc = "idle"
    /\ mqttData = EmptyDict
    /\ mqttExc = << >>
    /\ assessments = << >>
    /\ assessPc = << >>
    /\ mqttOld = EmptyDict
    /\ sendpOutcome = "none"
    /\ transmitted = Len(published)
    /\ seenUnmatched = {}
    /\ ev = [n |-> TieLoad, dst |-> D1, src |-> A2, t |-> TieLoadTime,
             counted |-> TRUE, ticks |-> 0, blocks |-> 0, prev |-> -1,
             sent |-> 0, runs |-> 0]

NextTie ==
    \/ ev.n < TieLoad + TieFrames /\ \E a \in {A1, A2} : DetectDeauth(D1, a)
    \/ ev.ticks < TieSteps
          /\ \E k \in {Secs(AlertInterval), Secs(TimeWindow) - Secs(AlertInterval)} :
                Tick(k)

SpecTie == InitTied /\ [][NextTie]_vars

\* SpecExpire: A1 was blocked at time 0; one tick before the end of its
\* cool-down A2 has sent FloodFrames frames to D1.  Then A1 and A2 send
\* frames to D1, the clock ticks, and A1 may be blocked again.
InitCooling ==
    /\ now = Secs(BlockCooldown) - 1
    /\ DeauthRecords = D1 :> [i \in 1..FloodFrames |-> <<Secs(BlockCooldown) - 1, A2>>]
    /\ MaxDeauthCounts = D1 :> FloodFrames
    /\ LastAlertTime = EmptyDict
    /\ BLOCKED_BSSIDS = A1 :> 0
    /\ PersonalTrusted = EmptyDict
    /\ PublicTrusted = EmptyDict
    /\ AlertedRogues = {}
    /\ UnrecognisedSSIDs = {}
    /\ published = << >>
    /\ rPc = "sniff"
    /\ beacon = NoBeacon
    /\ mqttPc = "idle"
    /\ mqttData = EmptyDict
    /\ mqttExc = << >>
    /\ assessments = << >>
    /\ assessPc = << >>
    /\ mqttOld = EmptyDict
    /\ sendpOutcome = "returned"
    /\ transmitted = Len(published)
    /\ seenUnmatched = {}
    /\ ev = [n |-> FloodFrames, dst |-> D1, src |-> A2, t |-> Secs(BlockCooldown) - 1,
             counted |-> TRUE, ticks |-> 0, blocks |-> 0, prev |-> -1,
             sent |-> 0, runs |-> 0]

NextExpire ==
    \/ ev.blocks < ExpireCommands /\ BlockCallback([target_bssid |-> A1])
    \/ SendpReturn
    \/ \E goesOn \in BOOLEAN : SendpRaise(goesOn)
    \/ ev.n < FloodFrames + ExpireFrames /\ \E a \in {A1, A2} : DetectDeauth(D1, a)
    \/ ev.ticks < ExpireTicks /\ \E k \in {1, Secs(TimeWindow) + 1} : Tick(k)

SpecExpire == InitCooling /\ [][NextExpire]_vars

\* SpecPair: two destinations.  A1 has sent Threshold frames to D1 at time 0
\* and the alert for D1 is out; then frames for D1 and for D2 arrive while
\* the clock steps by one tick or past the window.
InitAlerted ==
    /\ now = 0
    /\ DeauthRecords = D1 :> [i \in 1..Threshold |-> <<0, A1>>]
    /\ MaxDeauthCounts = D1 :> Threshold
    /\ LastAlertTime = D1 :> 0
    /\ BLOCKED_BSSIDS = EmptyDict
    /\ PersonalTrusted = EmptyDict
    /\ PublicTrusted = EmptyDict
    /\ AlertedRogues = {}
    /\ UnrecognisedSSIDs = {}
    /\ published = <<[topic |-> "alerts/deauth",
                      payload |-> DeauthAlert(D1, Threshold, A1, Threshold),
                      at |-> 0]>>
    /\ rPc = "sniff"
    /\ beacon = NoBeacon
    /\ mqttPc = "idle"
    /\ mqttData = EmptyDict
    /\ mqttExc = << >>
    /\ assessments = << >>
    /\ assessPc = << >>
    /\ mqttOld = EmptyDict
    /\ sendpOutcome = "none"
    /\ transmitted = Len(published)
    /\ seenUnmatched = {}
    /\ ev = [n |-> Threshold, dst |-> D1, src |-> A1, t |-> 0, counted |-> TRUE,
             ticks |-> 0, blocks |-> 0, prev |-> -1,
             sent |-> 0, runs |-> 0]

NextPair ==
    \/ ev.n < Threshold + PairFrames
          /\ \E d \in {D1, D2}, a \in {A1, A2} : DetectDeauth(d, a)
    \/ ev.ticks < PairSteps /\ \E k \in {1, Secs(TimeWindow) + 1} : Tick(k)

SpecPair == InitAlerted /\ [][NextPair]_vars

\* SpecKey: block commands name A1 in upper case and A2 in lower case; the
\* sniffer reports the sources of frames in lower case.  The clock steps by
\* one tick or by the cooldown.
KeyCmds == {[target_bssid |-> A1Upper], [target_bssid |-> A2]}

NextKey ==
    \/ ev.blocks < KeyCommands /\ \E Data \in KeyCmds : BlockCallback(Data)
    \/ SendpReturn
    \/ ev.n < KeyFrames /\ \E a \in {A1, A2} : DetectDeauth(D1, a)
    \/ ev.ticks < KeySteps /\ \E k \in {1, Secs(BlockCooldown)} : Tick(k)

SpecKey == Init /\ [][NextKey]_vars

\* SpecOscillate: one attacker and one destination; the clock moves by one
\* tick or by the whole time window, so that the count falls back below the
\* threshold and rises again.
NextOscillate ==
    \/ ev.n < OscFrames /\ DetectDeauth(D1, A1)
    \/ ev.ticks < OscAdvances /\ \E k \in {1, Secs(TimeWindow)} : Tick(k)

SpecOscillate == Init /\ [][NextOscillate]_vars

\* SpecInject: the frames that sendp() injects (MQTTHelper.py:106-109: to
\* broadcast, from RogueBSSID, Count of them, 0.1 s apart) reach the de-auth
\* sniffer, which handles each one before the next is sent.
InjectCmds == {[target_bssid |-> A1], [target_bssid |-> A1, count |-> 16]}

\* one frame of the sendp() call in hand, which sends Count frames
InjectedFrame ==
    /\ mqttPc = "sendp"
    /\ ev.sent < mqttData.Count
    /\ DetectDeauth(Broadcast, mqttData.RogueBSSID)

NextInject ==
    \/ ev.blocks < InjectCommands /\ \E Data \in InjectCmds : BlockCallback(Data)
    \/ InjectedFrame
    \/ SendpReturn
    \/ \E goesOn \in BOOLEAN : SendpRaise(goesOn)
    \/ now < InjectTicks /\ Tick(1)

SpecInject == Init /\ [][NextInject]_vars

\* SpecCommand: the commands of the MQTT loop thread.  Block commands with
\* and without a target, an interface and a count; sendp injects up to Count
\* frames, which the deauth sniffer hears, and returns or raises.
\* run_assessment commands, delivered after the block commands in the runs
\* in which the sniffer has heard no injected frame, start assessment
\* threads, which publish and sleep.  Main disconnects at the
\* end.  The clock stands still while sendp sends its frames, 0.1 s apart,
\* and moves while an assessment thread sleeps.
CommandCmds ==
    {EmptyDict,
     [target_bssid |-> ""],
     [interface |-> "wlan0", count |-> 3],
     [target_bssid |-> A1],
     [target_bssid |-> A1, interface |-> "wlan0"],
     [target_bssid |-> A2, count |-> 3]}

NextCommand ==
    \/ ev.blocks < CommandCount /\ \E Data \in CommandCmds : BlockCallback(Data)
    \/ InjectedFrame
    \/ SendpReturn
    \/ \E goesOn \in BOOLEAN : SendpRaise(goesOn)
    \/ ev.blocks = CommandCount /\ ev.n = 0 /\ ev.runs < AssessCommands
          /\ \E Data \in AssessmentCmds : RunAssessmentCallback(Data)
    \/ \E Config \in WiFiConfigs : PasswordAssessmentMain(Config)
    \/ \E Capture \in Captures : ProtocolAssessmentMain(Capture)
    \/ AssessmentEnd
    \/ ev.ticks < CommandSleeps
          /\ (\E i \in DOMAIN assessPc : assessPc[i].pc = "sleep")
          /\ \E k \in {1, Secs(AssessSleep)} : Tick(k)
    \/ Disconnect

SpecCommand == Init /\ [][NextCommand]_vars

(***************************************************************************)
(* Properties of the flood detector (SpecBurst, SpecWindow) and of the     *)
(* block coordinator (SpecBlock)                                           *)
(***************************************************************************)
DeauthAlerts == SelectSeq(published, LAMBDA m : m.topic = "alerts/deauth")

\* the burst of C1: one frame more than the threshold
ClaimFrames == Threshold + 1

\* C1 as stated: after a burst of 16 frames for D1, all from the unblocked
\* attacker A1 and starting from an empty window, exactly one deauth_attack
\* alert has been emitted, and it names A1.
C1_ExactlyOneAlert ==
    (ev.n = ClaimFrames) =>
        /\ Len(DeauthAlerts) = 1
        /\ DeauthAlerts[1].payload.most_frequent_attacker = A1

\* C1 amended: in such a burst the 15th frame emits an alert (frame_count 15);
\* the 16th frame emits a second one (frame_count 16) exactly when it arrives
\* at least 1 s after the 15th; every alert names D1 and A1.
C1_BurstAlerts ==
    (ev.n = ClaimFrames) =>
        LET Records == DeauthRecords[D1]
            Gap == Records[ClaimFrames][1] - Records[Threshold][1]
        IN /\ Len(Records) = ClaimFrames
           /\ Len(DeauthAlerts) = IF Gap >= Secs(AlertInterval) THEN 2 ELSE 1
           /\ DeauthAlerts[1].at = Records[Threshold][1]
           /\ \A i \in DOMAIN DeauthAlerts :
                 /\ DeauthAlerts[i].payload.alert_type = "deauth_attack"
                 /\ DeauthAlerts[i].payload.destination = D1
                 /\ DeauthAlerts[i].payload.most_frequent_attacker = A1
                 /\ DeauthAlerts[i].payload.frame_count = Threshold + i - 1
                 /\ DeauthAlerts[i].payload.max_frame_count = Threshold + i - 1

\* a burst whose 16th frame came a second after the 15th: two alerts
C1_Witness ==
    /\ ev.n = ClaimFrames
    /\ ev.dst = D1 /\ ev.src = A1 /\ ev.counted
    /\ Len(DeauthAlerts) = 2
    /\ DeauthAlerts[2].payload.most_frequent_attacker = A1
    /\ DeauthAlerts[2].at - DeauthAlerts[1].at = Secs(AlertInterval)

\* C2 as stated: after every DetectDeauth call, the window of every
\* destination holds only entries of age at most TimeWindow relative to the
\* time of that call.
C2_EveryWindowFresh ==
    (ev.n > 0) =>
        \A D \in DOMAIN DeauthRecords :
            \A i \in DOMAIN DeauthRecords[D] :
                ev.t - DeauthRecords[D][i][1] <= Secs(TimeWindow)

\* C2 amended: after every DetectDeauth call that is not ignored by the block
\* check, the window of the destination of that call holds only entries of age
\* at most TimeWindow relative to the time of the call; the windows of the
\* other destinations are left as they were.
C2_ObservedWindowFresh ==
    [][ (ev'.n = ev.n + 1 /\ ev'.counted) =>
            /\ ev'.dst \in DOMAIN DeauthRecords'
            /\ \A i \in DOMAIN DeauthRecords'[ev'.dst] :
                  ev'.t - DeauthRecords'[ev'.dst][i][1] <= Secs(TimeWindow)
            /\ DeauthRecords'[ev'.dst][Len(DeauthRecords'[ev'.dst])] = <<ev'.t, ev'.src>>
            /\ \A D \in DOMAIN DeauthRecords \ {ev'.dst} :
                  /\ D \in DOMAIN DeauthRecords'
                  /\ DeauthRecords'[D] = DeauthRecords[D]
      ]_vars

\* a call for D1 dropped an old entry, kept one of age exactly TimeWindow, and
\* the window of D2 still holds an entry older than TimeWindow
C2_Witness ==
    /\ ev.counted /\ ev.dst = D1 /\ now = ev.t
    /\ D2 \in DOMAIN DeauthRecords
    /\ Len(DeauthRecords[D1]) + Len(DeauthRecords[D2]) < ev.n
    /\ \E i \in DOMAIN DeauthRecords[D1] :
          ev.t - DeauthRecords[D1][i][1] = Secs(TimeWindow)
    /\ \E i \in DOMAIN DeauthRecords[D2] :
          ev.t - DeauthRecords[D2][i][1] > Secs(TimeWindow)

\* C3: a de-auth frame whose source A has BLOCKED_BSSIDS[A] = T and that is
\* observed at a time in [T, T + 30 s) is not appended to any window and
\* publishes no alert, whatever its destination.
C3_BlockedFramesIgnored ==
    [][ ( /\ ev'.n = ev.n + 1
          /\ ev'.src \in DOMAIN BLOCKED_BSSIDS
          /\ BLOCKED_BSSIDS[ev'.src] <= ev'.t
          /\ ev'.t < BLOCKED_BSSIDS[ev'.src] + Secs(BlockCooldown) ) =>
            /\ DeauthRecords' = DeauthRecords
            /\ published' = published
      ]_vars

\* the frame that would have been the 15th of A1's flood on D1 arrived in the
\* last tick of the cool-down and was ignored
C3_Witness ==
    /\ ev.n > FloodFrames /\ ~ev.counted
    /\ ev.src = A1 /\ ev.dst = D1 /\ now = ev.t
    /\ A1 \in DOMAIN BLOCKED_BSSIDS
    /\ ev.t - BLOCKED_BSSIDS[A1] = Secs(BlockCooldown) - 1
    /\ Len(DeauthRecords[D1]) = Threshold - 1
    /\ published = << >>

\* C10: when sendp returns, BLOCKED_BSSIDS[A] becomes the current time and
\* nothing else changes in it; when sendp raises, BLOCKED_BSSIDS is as it was
\* and the exception reaches the context that delivered the command; no other
\* step changes BLOCKED_BSSIDS.
C10_BlockRecordIffSent ==
    [][ /\ (mqttPc = "sendp" /\ mqttPc' # "sendp" /\ sendpOutcome' = "returned") =>
              /\ DOMAIN BLOCKED_BSSIDS' = DOMAIN BLOCKED_BSSIDS \cup {mqttData.RogueBSSID}
              /\ BLOCKED_BSSIDS'[mqttData.RogueBSSID] = now
              /\ \A A \in DOMAIN BLOCKED_BSSIDS \ {mqttData.RogueBSSID} :
                    BLOCKED_BSSIDS'[A] = BLOCKED_BSSIDS[A]
              /\ mqttExc' = mqttExc
        /\ (mqttPc = "sendp" /\ mqttPc' # "sendp" /\ sendpOutcome' = "raised") =>
              /\ BLOCKED_BSSIDS' = BLOCKED_BSSIDS
              /\ Len(mqttExc') = Len(mqttExc) + 1
              /\ mqttExc'[Len(mqttExc')].target = mqttData.RogueBSSID
        /\ (mqttPc' = "sendp" \/ mqttPc # "sendp") => BLOCKED_BSSIDS' = BLOCKED_BSSIDS
      ]_vars

\* a block of A1 went through and is on record; a later block of A2 failed
\* and left no record
C10_Witness ==
    /\ sendpOutcome = "raised"
    /\ mqttExc # << >>
    /\ mqttExc[Len(mqttExc)].target = A2
    /\ DOMAIN BLOCKED_BSSIDS = {A1}
    /\ ev.blocks = 2


\* a block of address A completes while the cool-down of an earlier block of
\* A is still active
Reblock(A) ==
    /\ mqttPc = "sendp" /\ mqttPc' # "sendp"
    /\ mqttData.RogueBSSID = A
    /\ Blocked(A, now)

\* the times at which a later frame of the address may arrive
LaterTimes == now .. (now + 2 * Secs(BlockCooldown))

\* C13 as stated: a block command for A delivered again while A's cool-down is
\* active changes nothing in which later frames from A DetectDeauth ignores.
C13_ReblockChangesNothing ==
    [][ \A A \in {A1, A2} :
          Reblock(A) => \A t \in LaterTimes : Blocked(A, t)' = Blocked(A, t)
      ]_vars

\* C13 amended: such a repeated block never makes DetectDeauth count a frame
\* from A that it would have ignored after one delivery; when the repeated
\* injection returns the cool-down starts again, so that the frames from A
\* until 30 s after that time are ignored; when it fails nothing changes.
C13_ReblockRestartsCooldown ==
    [][ \A A \in {A1, A2} :
          Reblock(A) =>
            /\ \A t \in LaterTimes : Blocked(A, t) => Blocked(A, t)'
            /\ sendpOutcome' = "returned" =>
                  \A t \in LaterTimes :
                      Blocked(A, t)' <=> (t - now < Secs(BlockCooldown))
            /\ sendpOutcome' = "raised" =>
                  \A t \in LaterTimes : Blocked(A, t)' = Blocked(A, t)
            /\ UNCHANGED <<deauthVars, published>>
      ]_vars

\* A1 was blocked, blocked again within the cool-down, and a frame from A1
\* that came 30 s or more after the first block was ignored
C13_Witness ==
    /\ ~ev.counted /\ ev.src = A1 /\ now = ev.t
    /\ DOMAIN BLOCKED_BSSIDS = {A1}
    /\ sendpOutcome = "returned"
    /\ ev.prev >= 0
    /\ BLOCKED_BSSIDS[A1] < ev.prev + Secs(BlockCooldown)
    /\ ev.t >= ev.prev + Secs(BlockCooldown)

\* C11 as stated: a de-auth frame injected by a block of A (from A, to
\* broadcast) that DetectDeauth handles while the block is in progress enters
\* no window and publishes no alert.
C11_InjectedFramesIgnored ==
    [][ ( /\ mqttPc = "sendp"
          /\ ev'.n = ev.n + 1
          /\ ev'.dst = Broadcast
          /\ ev'.src = mqttData.RogueBSSID ) =>
            /\ DeauthRecords' = DeauthRecords
            /\ published' = published
      ]_vars

\* C12 as stated: any two deauth_attack alerts for the same destination are
\* published at least 1 second apart.
C12_AlertsOneSecondApart ==
    \A i, j \in DOMAIN DeauthAlerts :
        (i < j /\ DeauthAlerts[i].payload.destination = DeauthAlerts[j].payload.destination)
            => DeauthAlerts[j].at - DeauthAlerts[i].at >= Secs(AlertInterval)

(***************************************************************************)
(* Properties of the AP classifier and the trust store (SpecRogue)         *)
(***************************************************************************)
IsRogueAlert(m, SSID, BSSID) ==
    /\ m.payload.alert_type = "rogue_ap"
    /\ m.payload.ssid = SSID
    /\ m.payload.detected_bssid = BSSID

AlertedBefore(log, SSID, BSSID) == \E i \in DOMAIN log : IsRogueAlert(log[i], SSID, BSSID)

AtMostOnePerPair(log) ==
    \A i, j \in DOMAIN log :
        ( /\ log[i].payload.alert_type = "rogue_ap"
          /\ log[j].payload.alert_type = "rogue_ap"
          /\ log[i].payload.ssid = log[j].payload.ssid
          /\ log[i].payload.detected_bssid = log[j].payload.detected_bssid ) => i = j

IsUnrecognisedAlert(m) == m.payload.alert_type = "unrecognised_aps"

\* The steps of the two threads, told by the thread's position.
StepL76 == rPc = "dr_l76" /\ rPc' # "dr_l76"
StepL89 == rPc = "dr_l89" /\ rPc' # "dr_l89"
StepL90 == rPc = "dr_l90" /\ rPc' # "dr_l90"
StepSniffReturn == rPc = "sniff" /\ rPc' = "stopped"
StepL52 == mqttPc = "idle" /\ mqttPc' = "ut_l56"
StepL56 == mqttPc = "ut_l56" /\ mqttPc' = "idle"

\* C4: for an SSID that is a key of the personal mapping, a beacon from an
\* allowed address publishes nothing; a beacon from another address publishes
\* exactly one rogue_ap alert of network_type "personal" when the pair has not
\* been alerted yet and nothing when it has; no (ssid, bssid) pair ever has
\* two rogue_ap alerts.
C4_PersonalRogueOnce ==
    [][ /\ (StepL76 /\ beacon.ssid \in DOMAIN PersonalTrusted) =>
             LET allowed == PersonalTrusted[beacon.ssid]
                 isAllowed == \E i \in DOMAIN allowed : allowed[i] = beacon.bssid
                 already == AlertedBefore(published, beacon.ssid, beacon.bssid)
             IN IF isAllowed \/ already
                THEN published' = published
                ELSE published' = Append(published,
                        [topic |-> "alerts/rogue_ap",
                         payload |-> [alert_type |-> "rogue_ap",
                                      network_type |-> "personal",
                                      ssid |-> beacon.ssid,
                                      detected_bssid |-> beacon.bssid,
                                      expected |-> allowed],
                         at |-> now])
        /\ AtMostOnePerPair(published')
      ]_vars

\* C4 witness: the pair (Home, EvilAP) has been alerted as a personal rogue and
\* a second identical beacon is at the lookup of line 76.
C4_Witness ==
    /\ rPc = "dr_l76"
    /\ beacon.ssid = Home /\ beacon.bssid = EvilAP
    /\ Home \in DOMAIN PersonalTrusted
    /\ HomeAP \in Range(PersonalTrusted[Home])
    /\ \E i \in DOMAIN published :
          /\ IsRogueAlert(published[i], Home, EvilAP)
          /\ published[i].payload.network_type = "personal"

\* C5: for an SSID that is a key of the public mapping (and was not one of
\* the personal mapping), a beacon whose first three octets are an allowed
\* prefix publishes nothing; the first beacon of a pair whose prefix is not
\* allowed publishes one rogue_ap alert of network_type "public" whose
\* detected_prefix is the lower-cased first three octets of the detected BSSID
\* and whose expected_prefixes is the stored list.
C5_PublicRogue ==
    [][ (StepL90 /\ beacon.ssid \in DOMAIN PublicTrusted) =>
             LET allowed == PublicTrusted[beacon.ssid]
                 b == beacon.bssid
                 prefix == <<LowerOctet(b[1]), LowerOctet(b[2]), LowerOctet(b[3])>>
                 isAllowed == \E i \in DOMAIN allowed : allowed[i] = SubSeq(b, 1, 3)
                 already == AlertedBefore(published, beacon.ssid, b)
             IN IF isAllowed \/ already
                THEN published' = published
                ELSE published' = Append(published,
                        [topic |-> "alerts/rogue_ap",
                         payload |-> [alert_type |-> "rogue_ap",
                                      network_type |-> "public",
                                      ssid |-> beacon.ssid,
                                      detected_bssid |-> b,
                                      detected_prefix |-> prefix,
                                      expected_prefixes |-> allowed],
                         at |-> now])
      ]_vars

\* C5 witness: Cafe is public only, with the prefix of CafeAP allowed; the
\* beacon of HomeAP has been alerted with detected_prefix aa:bb:cc and a beacon
\* of CafeAP is at the lookup of line 90.
C5_Witness ==
    /\ rPc = "dr_l90"
    /\ beacon.ssid = Cafe /\ beacon.bssid = CafeAP
    /\ Cafe \in DOMAIN PublicTrusted /\ Cafe \notin DOMAIN PersonalTrusted
    /\ PublicTrusted[Cafe] = << <<"11", "22", "33">> >>
    /\ \E i \in DOMAIN published :
          /\ IsRogueAlert(published[i], Cafe, HomeAP)
          /\ published[i].payload.network_type = "public"
          /\ published[i].payload.detected_prefix = <<"aa", "bb", "cc">>

\* C6: a trust update wholly replaces each mapping whose field is present and
\* leaves the other unchanged: with only `public`, PersonalTrusted after the
\* command is what it was before it and PublicTrusted holds exactly the SSIDs
\* of the command; with only `personal`, symmetrically.
C6_ReplaceOneField ==
    [][ /\ StepL52 =>
             /\ PublicTrusted' = PublicTrusted
             /\ "personal" \notin DOMAIN mqttData' => PersonalTrusted' = PersonalTrusted
             /\ "personal" \in DOMAIN mqttData' =>
                   /\ DOMAIN PersonalTrusted' = DOMAIN mqttData'.personal
                   /\ \A k \in DOMAIN PersonalTrusted' :
                         Len(PersonalTrusted'[k]) = Len(mqttData'.personal[k])
        /\ StepL56 =>
             /\ PersonalTrusted' = PersonalTrusted
             /\ "personal" \notin DOMAIN mqttData => PersonalTrusted' = mqttOld
             /\ "public" \notin DOMAIN mqttData => PublicTrusted' = PublicTrusted
             /\ "public" \in DOMAIN mqttData =>
                   /\ DOMAIN PublicTrusted' = DOMAIN mqttData.public
                   /\ \A k \in DOMAIN PublicTrusted' :
                         Len(PublicTrusted'[k]) = Len(mqttData.public[k])
      ]_vars

\* C6 witness: a command with only `public` is at line 56 while both mappings
\* are non-empty and the public mapping holds an SSID the command does not.
C6_Witness ==
    /\ mqttPc = "ut_l56"
    /\ DOMAIN mqttData = {"public"}
    /\ PersonalTrusted # EmptyDict
    /\ DOMAIN PublicTrusted \ DOMAIN mqttData.public # {}

\* UpdateTrustedCallback run from start to end on the store <<personal, public>>
ApplyUpdate(store, Data) == <<NewPersonal(Data, store[1]), NewPublic(Data, store[2])>>

\* C7: from every trust store state, applying a trust-update command twice
\* gives the state that applying it once gives.
C7_UpdateIdempotent ==
    \A Data \in TrustCmds :
        LET once == ApplyUpdate(<<PersonalTrusted, PublicTrusted>>, Data)
        IN ApplyUpdate(once, Data) = once

\* C7 witness: the store is the result of a command that carries both fields,
\* both non-empty, and differs from the initial store in both mappings.
C7_Witness ==
    /\ mqttPc = "idle"
    /\ PersonalTrusted # EmptyDict /\ PublicTrusted # EmptyDict
    /\ \E Data \in TrustCmds :
          /\ DOMAIN Data = {"personal", "public"}
          /\ ApplyUpdate(<<EmptyDict, EmptyDict>>, Data) = <<PersonalTrusted, PublicTrusted>>

UnrecognisedAlerts(log) == {i \in DOMAIN log : IsUnrecognisedAlert(log[i])}

\* C8 as claimed: once sniffing has stopped there is exactly one
\* unrecognised_aps alert if UnrecognisedSSIDs is non-empty and none if it is
\* empty, and that alert contains every SSID observed that matched neither
\* trust mapping.
C8_FlushHoldsEverySSID ==
    rPc = "stopped" =>
        /\ Cardinality(UnrecognisedAlerts(published)) =
              (IF UnrecognisedSSIDs # {} THEN 1 ELSE 0)
        /\ \A i \in UnrecognisedAlerts(published) :
              seenUnmatched \subseteq Range(published[i].payload.ssids)

\* C8 amended: when sniff() returns, one unrecognised_aps alert is published
\* if UnrecognisedSSIDs is non-empty and none if it is empty; its ssids are
\* the members of UnrecognisedSSIDs, each once, which are the normalised forms
\* of the observed SSIDs that matched neither mapping except the empty one;
\* no other step publishes or repeats such an alert.
C8_ShutdownFlush ==
    [][ /\ StepSniffReturn =>
             IF UnrecognisedSSIDs = {}
             THEN published' = published
             ELSE /\ Len(published') = Len(published) + 1
                  /\ SubSeq(published', 1, Len(published)) = published
                  /\ LET m == published'[Len(published')]
                     IN /\ m.topic = "alerts/rogue_ap"
                        /\ IsUnrecognisedAlert(m)
                        /\ Len(m.payload.ssids) = Cardinality(UnrecognisedSSIDs)
                        /\ Range(m.payload.ssids) = UnrecognisedSSIDs
                        /\ Range(m.payload.ssids) =
                              {NormaliseSSID(x) : x \in seenUnmatched} \ {<< >>}
        /\ ~StepSniffReturn =>
             UnrecognisedAlerts(published') = UnrecognisedAlerts(published)
        /\ rPc = "stopped" => rPc' = "stopped"
      ]_vars

\* C8 witness: sniffing has stopped after two SSIDs and a hidden (empty) SSID
\* matched neither mapping, and the last message is the one batch alert with
\* the two SSIDs.
C8_Witness ==
    /\ rPc = "stopped"
    /\ Hidden \in seenUnmatched
    /\ Cardinality(UnrecognisedSSIDs) = 2
    /\ published # << >>
    /\ IsUnrecognisedAlert(published[Len(published)])
    /\ Range(published[Len(published)].payload.ssids) = UnrecognisedSSIDs
    /\ Cardinality(UnrecognisedAlerts(published)) = 1

\* The order of Python's sorted() on str: by code point, character by
\* character, a proper prefix first.
CodePoint(c) ==
    CASE c = "nul" -> 0 [] c = "tab" -> 9 [] c = "sp" -> 32 [] c = "apos" -> 39
      [] c = "C" -> 67 [] c = "H" -> 72 [] c = "J" -> 74 [] c = "U" -> 85
      [] c = "s" -> 115 [] c = "acirc" -> 226 [] c = "rsquo" -> 8217
      [] c = "euro" -> 8364 [] c = "tm" -> 8482

StrLess(a, b) ==
    \E k \in 0..Len(a) :
        /\ k <= Len(b)
        /\ \A i \in 1..k : a[i] = b[i]
        /\ \/ k = Len(a) /\ k < Len(b)
           \/ k < Len(a) /\ k < Len(b) /\ CodePoint(a[k + 1]) < CodePoint(b[k + 1])

\* C17 as stated: the ssids of every unrecognised_aps alert are in ascending
\* order, each SSID once.
C17_FlushIsSorted ==
    \A n \in UnrecognisedAlerts(published) :
        LET ssids == published[n].payload.ssids
        IN \A i, j \in DOMAIN ssids : i < j => StrLess(ssids[i], ssids[j])

\* C18: a trust-update command with neither a "personal" nor a "public" key
\* raises nothing and leaves PersonalTrusted, PublicTrusted, AlertedRogues and
\* UnrecognisedSSIDs as they were, in each of its steps.
C18_EmptyUpdateIsNoOp ==
    [][ /\ (StepL52 /\ DOMAIN mqttData' \cap {"personal", "public"} = {}) =>
              /\ UNCHANGED <<PersonalTrusted, PublicTrusted, AlertedRogues,
                             UnrecognisedSSIDs>>
              /\ mqttExc' = mqttExc
        /\ (mqttPc = "ut_l56" /\ DOMAIN mqttData \cap {"personal", "public"} = {}
               /\ mqttPc' # mqttPc) =>
              /\ UNCHANGED <<PersonalTrusted, PublicTrusted, AlertedRogues,
                             UnrecognisedSSIDs>>
              /\ mqttExc' = mqttExc
              /\ mqttPc' = "idle"
      ]_vars

\* a command without either key is half-way through on a store whose two
\* mappings are not empty
C18_Witness ==
    /\ mqttPc = "ut_l56"
    /\ mqttData = EmptyDict
    /\ PersonalTrusted # EmptyDict /\ PublicTrusted # EmptyDict
    /\ mqttOld = PersonalTrusted

\* The sniffer threads are never held up by a block: while sendp() is in
\* progress, or after it raised, DetectDeauth can take a frame, DetectRogue
\* can take its next step, and a frame that completes a flood calls publish.
C19_SniffersRun ==
    /\ ENABLED DeauthThread
    /\ (rPc # "sniff" \/ Len(published) < MaxPublished) => ENABLED BeaconThread
    /\ ( /\ D1 \in DOMAIN DeauthRecords
         /\ Len(Prune(DeauthRecords[D1], now)) >= Threshold - 1
         /\ ~Blocked(A1, now)
         /\ AlertDue(D1, now) ) =>
           ENABLED (DeauthThread /\ Len(published') = Len(published) + 1)

\* C19: while the sendp() of a block command is in progress, or after it
\* failed, DetectDeauth and DetectRogue can still process frames and their
\* alerts can still be emitted: every alert handed to publish and not yet
\* written to the broker can be written.
C19_BlockOffIngestionPath ==
    (mqttPc = "sendp" \/ sendpOutcome = "raised") =>
        /\ C19_SniffersRun
        /\ transmitted < Len(published) => ENABLED Transmit

\* C21: a counted DetectDeauth call for D at time t leaves in D's window the
\* old entries followed by (t, attacker), in that order, without exactly the
\* entries whose age t - T exceeds TimeWindow: an entry of age TimeWindow and
\* an entry of negative age (the clock went backwards) are kept, and the
\* call ends normally.
C21_PruneInclusive ==
    [][ (ev'.n = ev.n + 1) =>
          LET D == ev'.dst
              t == ev'.t
              app == Append(DictGet(DeauthRecords, D, << >>), <<t, ev'.src>>)
              kept == {i \in DOMAIN app : ~ (t - app[i][1] > Secs(TimeWindow))}
          IN /\ ev'.counted /\ t = now
             /\ D \in DOMAIN DeauthRecords'
             /\ Len(DeauthRecords'[D]) = Cardinality(kept)
             /\ \A i \in kept :
                   DeauthRecords'[D][Cardinality({j \in kept : j <= i})] = app[i]
      ]_vars

\* the last call for D1 removed an entry, and D1's window holds an entry of
\* age exactly TimeWindow and one stamped later than the call
C21_Witness ==
    /\ ev.counted /\ ev.dst = D1 /\ ev.t = now
    /\ Len(DeauthRecords[D1]) < ev.n
    /\ \E i, j \in DOMAIN DeauthRecords[D1] :
          /\ ev.t - DeauthRecords[D1][i][1] = Secs(TimeWindow)
          /\ DeauthRecords[D1][j][1] > ev.t

\* C22: MaxDeauthCounts[D] is the largest length D's window had at the end of
\* a counted call: a counted call for D makes it the larger of its old value
\* and the new window length, no other step changes it, and an alert carries
\* the window length as frame_count, at least Threshold, and the stored
\* maximum as max_frame_count, at least frame_count.
C22_RunningMaximum ==
    [][ /\ \A D \in DOMAIN MaxDeauthCounts :
              /\ D \in DOMAIN MaxDeauthCounts'
              /\ MaxDeauthCounts'[D] >= MaxDeauthCounts[D]
        /\ \A D \in DOMAIN DeauthRecords' :
              /\ D \in DOMAIN MaxDeauthCounts'
              /\ MaxDeauthCounts'[D] >= Len(DeauthRecords'[D])
        /\ IF ev'.n = ev.n + 1 /\ ev'.counted
           THEN LET D == ev'.dst
                    Count == Len(DeauthRecords'[D])
                IN /\ MaxDeauthCounts'[D] =
                         IF D \in DOMAIN MaxDeauthCounts /\ MaxDeauthCounts[D] >= Count
                         THEN MaxDeauthCounts[D] ELSE Count
                   /\ \A E \in DOMAIN MaxDeauthCounts' \ {D} :
                         E \in DOMAIN MaxDeauthCounts
                            /\ MaxDeauthCounts'[E] = MaxDeauthCounts[E]
                   /\ (published' # published) =>
                         LET alert == published'[Len(published')].payload
                         IN /\ Len(published') = Len(published) + 1
                            /\ alert.alert_type = "deauth_attack"
                            /\ alert.destination = D
                            /\ alert.frame_count = Count
                            /\ alert.frame_count >= Threshold
                            /\ alert.max_frame_count = MaxDeauthCounts'[D]
                            /\ alert.max_frame_count >= alert.frame_count
           ELSE MaxDeauthCounts' = MaxDeauthCounts
      ]_vars

\* the window of D1 shrank below its maximum and reached the threshold again:
\* the last alert carries a max_frame_count above its frame_count
C22_Witness ==
    /\ published # << >>
    /\ LET alert == published[Len(published)].payload
       IN /\ alert.max_frame_count > alert.frame_count
          /\ alert.frame_count = Len(DeauthRecords[D1])
          /\ alert.max_frame_count = MaxDeauthCounts[D1]

\* the number of entries of address A in window W, and the place of its
\* first entry
EntriesOf(W, A) == Cardinality({i \in DOMAIN W : W[i][2] = A})
FirstEntryOf(W, A) == CHOOSE i \in DOMAIN W :
                          W[i][2] = A /\ \A j \in 1..(i - 1) : W[j][2] # A

\* C23: the most_frequent_attacker of an alert has the highest number of
\* entries in the pruned window of the alert's destination, and every other
\* address with as many entries has its first entry later in that window.
C23_MostFrequentFirstOnTie ==
    [][ (ev'.n = ev.n + 1 /\ published' # published) =>
          LET W == DeauthRecords'[ev'.dst]
              M == published'[Len(published')].payload.most_frequent_attacker
              Addrs == {W[i][2] : i \in DOMAIN W}
          IN /\ M \in Addrs
             /\ \A A \in Addrs : EntriesOf(W, A) <= EntriesOf(W, M)
             /\ \A A \in Addrs \ {M} :
                   EntriesOf(W, A) = EntriesOf(W, M) =>
                       FirstEntryOf(W, M) < FirstEntryOf(W, A)
      ]_vars

\* A2's frame of time 0 has been pruned; A1 and A2 have as many entries, the
\* latest is A2's, A1's first entry comes first, and the alert names A1
C23_Witness ==
    /\ published # << >>
    /\ ev.counted /\ ev.src = A2
    /\ LET W == DeauthRecords[D1]
           alert == published[Len(published)].payload
       IN /\ alert.frame_count = Len(W)
          /\ W[1][1] > 0
          /\ EntriesOf(W, A1) = EntriesOf(W, A2)
          /\ alert.most_frequent_attacker = A1

\* C24: a counted call for D that ends with fewer than Threshold entries
\* removes LastAlertTime[D] and publishes nothing; a counted call for D that
\* ends with Threshold entries or more while LastAlertTime has no entry for D
\* publishes an alert, however recent the last alert for D; and no step other
\* than a counted call changes LastAlertTime.
C24_BelowThresholdClearsAlertTime ==
    [][ IF ev'.n = ev.n + 1 /\ ev'.counted
        THEN LET D == ev'.dst
                 Count == Len(DeauthRecords'[D])
             IN /\ (Count < Threshold) =>
                      /\ D \notin DOMAIN LastAlertTime'
                      /\ published' = published
                /\ (Count >= Threshold /\ D \notin DOMAIN LastAlertTime) =>
                      /\ Len(published') = Len(published) + 1
                      /\ published'[Len(published')].payload.alert_type = "deauth_attack"
                      /\ published'[Len(published')].payload.destination = D
                      /\ LastAlertTime'[D] = ev'.t
                /\ \A E \in DOMAIN LastAlertTime \ {D} :
                      E \in DOMAIN LastAlertTime' /\ LastAlertTime'[E] = LastAlertTime[E]
        ELSE LastAlertTime' = LastAlertTime
      ]_vars

\* two alerts for D1 were published less than one alert interval apart, the
\* second by the last call
C24_Witness ==
    /\ Len(DeauthAlerts) >= 2
    /\ LET last == DeauthAlerts[Len(DeauthAlerts)]
           before == DeauthAlerts[Len(DeauthAlerts) - 1]
       IN /\ last.payload.destination = D1 /\ before.payload.destination = D1
          /\ last.at > before.at
          /\ last.at - before.at < Secs(AlertInterval)
          /\ LastAlertTime[D1] = last.at

\* C25: a frame from A that arrives 30 s or more after the block of A, 30 s
\* exactly included, is handled as a frame of an address that was never
\* blocked: it is appended to the window of its destination, and it
\* publishes an alert when it brings the window to the threshold and an
\* alert is due.
C25_CooldownEndsAt30 ==
    [][ ( /\ ev'.n = ev.n + 1
          /\ ev'.src \in DOMAIN BLOCKED_BSSIDS
          /\ now - BLOCKED_BSSIDS[ev'.src] >= Secs(BlockCooldown) ) =>
            LET D == ev'.dst
                W == DeauthRecords'[D]
            IN /\ ev'.counted
               /\ W # << >> /\ W[Len(W)] = <<now, ev'.src>>
               /\ (Len(W) >= Threshold /\ AlertDue(D, now)) =>
                     /\ Len(published') = Len(published) + 1
                     /\ published'[Len(published')].payload.alert_type = "deauth_attack"
                     /\ published'[Len(published')].payload.frame_count = Len(W)
      ]_vars

\* the frame of A1 that arrived exactly 30 s after A1's block was the 15th
\* of D1's window and published the alert
C25_Witness ==
    /\ ev.src = A1 /\ ev.dst = D1 /\ ev.counted /\ ev.t = now
    /\ A1 \in DOMAIN BLOCKED_BSSIDS
    /\ ev.t - BLOCKED_BSSIDS[A1] = Secs(BlockCooldown)
    /\ Len(DeauthRecords[D1]) = Threshold
    /\ published # << >>
    /\ published[Len(published)].at = ev.t
    /\ published[Len(published)].payload.frame_count = Threshold

\* C26: a frame whose source is in its cool-down changes no window, no
\* stored maximum and no last-alert time, of any destination, and publishes
\* nothing.
C26_SuppressedFrameChangesNothing ==
    [][ ( /\ ev'.n = ev.n + 1
          /\ ev'.src \in DOMAIN BLOCKED_BSSIDS
          /\ now - BLOCKED_BSSIDS[ev'.src] < Secs(BlockCooldown) ) =>
            /\ ~ ev'.counted
            /\ UNCHANGED <<DeauthRecords, MaxDeauthCounts, LastAlertTime, published>>
      ]_vars

\* the frame of the blocked A1 came when every entry of D1's window was
\* older than TimeWindow and an alert for D1 had been published: the entries
\* and LastAlertTime[D1] are still there
C26_Witness ==
    /\ ~ ev.counted /\ ev.src = A1 /\ ev.dst = D1 /\ ev.t = now
    /\ D1 \in DOMAIN LastAlertTime
    /\ Len(DeauthRecords[D1]) = Threshold
    /\ MaxDeauthCounts[D1] = Threshold
    /\ \A i \in DOMAIN DeauthRecords[D1] : now - DeauthRecords[D1][i][1] > Secs(TimeWindow)
    /\ Len(published) = 1

\* the deauth_attack alerts published for destination D
AlertsFor(D) == SelectSeq(DeauthAlerts, LAMBDA m : m.payload.destination = D)

\* C31: whenever LastAlertTime has an entry for D, the window that the most
\* recent counted call for D left holds Threshold entries or more, an alert
\* for D has been published, and the entry is the time of the latest one.
C31_AlertTimeOnlyAtThreshold ==
    \A D \in DOMAIN LastAlertTime :
        /\ D \in DOMAIN DeauthRecords
        /\ Len(DeauthRecords[D]) >= Threshold
        /\ AlertsFor(D) # << >>
        /\ LastAlertTime[D] = AlertsFor(D)[Len(AlertsFor(D))].at

\* two alerts for D1 have been published at different times, and a counted
\* call for D1 has come after the second and published nothing, the window
\* being above the threshold
C31_Witness ==
    /\ D1 \in DOMAIN LastAlertTime
    /\ Len(AlertsFor(D1)) = 2
    /\ AlertsFor(D1)[1].at < LastAlertTime[D1]
    /\ ev.counted /\ ev.dst = D1
    /\ Len(DeauthRecords[D1]) > AlertsFor(D1)[2].payload.frame_count

\* C32: a counted call for D that ends with Threshold entries or more while
\* LastAlertTime has an entry for D publishes nothing and leaves the entry
\* when it comes less than 1 s after the entry, whatever the time of the
\* frame before it, and publishes an alert and sets the entry to its own time
\* when it comes 1 s or more after the entry.
C32_DebounceFromLastAlert ==
    [][ ( /\ ev'.n = ev.n + 1 /\ ev'.counted
          /\ Len(DeauthRecords'[ev'.dst]) >= Threshold
          /\ ev'.dst \in DOMAIN LastAlertTime ) =>
            LET D == ev'.dst
            IN IF now - LastAlertTime[D] < Secs(AlertInterval)
               THEN /\ published' = published
                    /\ LastAlertTime' = LastAlertTime
               ELSE /\ Len(published') = Len(published) + 1
                    /\ published'[Len(published')].payload.alert_type = "deauth_attack"
                    /\ published'[Len(published')].payload.destination = D
                    /\ published'[Len(published')].at = now
                    /\ LastAlertTime'[D] = now
      ]_vars

\* in a flood on D1 the frame half a second after the first alert published
\* nothing, and the next frame, 1 s after the first alert and half a second
\* after that frame, published the second alert
C32_Witness ==
    /\ Len(AlertsFor(D1)) = 2
    /\ AlertsFor(D1)[2].at - AlertsFor(D1)[1].at = Secs(AlertInterval)
    /\ AlertsFor(D1)[2].payload.frame_count = AlertsFor(D1)[1].payload.frame_count + 2
    /\ DeauthRecords[D1][Len(DeauthRecords[D1]) - 1][1] > AlertsFor(D1)[1].at
    /\ DeauthRecords[D1][Len(DeauthRecords[D1]) - 1][1] < AlertsFor(D1)[2].at
    /\ ev.t = LastAlertTime[D1]

\* what a dictionary holds for the keys other than D
Others(d, D) == [E \in DOMAIN d \ {D} |-> d[E]]

\* C33: a DetectDeauth call for D leaves the window, the maximum and the
\* last-alert time of every other destination as they were and creates none
\* for them, and D's window after the call holds only entries it held before
\* and the entry of this frame; no other step changes any of the three.
C33_OnlyOwnDestinationChanges ==
    [][ IF ev'.n = ev.n + 1
        THEN LET D == ev'.dst
             IN /\ Others(DeauthRecords', D) = Others(DeauthRecords, D)
                /\ Others(MaxDeauthCounts', D) = Others(MaxDeauthCounts, D)
                /\ Others(LastAlertTime', D) = Others(LastAlertTime, D)
                /\ D \in DOMAIN DeauthRecords' =>
                      \A i \in DOMAIN DeauthRecords'[D] :
                          \/ DeauthRecords'[D][i] = <<ev'.t, ev'.src>>
                          \/ /\ D \in DOMAIN DeauthRecords
                             /\ \E j \in DOMAIN DeauthRecords[D] :
                                   DeauthRecords[D][j] = DeauthRecords'[D][i]
        ELSE UNCHANGED <<DeauthRecords, MaxDeauthCounts, LastAlertTime>>
      ]_vars

\* a frame of A2 for D2 was counted when every entry of D1's window had
\* expired: D1's window, maximum and last-alert time are as the flood left
\* them, and D2's window holds that frame alone
C33_Witness ==
    /\ ev.dst = D2 /\ ev.src = A2 /\ ev.counted /\ ev.t = now
    /\ DeauthRecords[D2] = << <<now, A2>> >>
    /\ DeauthRecords[D1] = [i \in 1..Threshold |-> <<0, A1>>]
    /\ now > Secs(TimeWindow)
    /\ MaxDeauthCounts[D1] = Threshold /\ MaxDeauthCounts[D2] = 1
    /\ LastAlertTime = D1 :> 0

\* C34: the keys of BLOCKED_BSSIDS are the target_bssid strings as the block
\* commands gave them, and a frame is suppressed exactly when its source
\* address is, character for character, a key recorded less than 30 s ago;
\* so a frame from A1, reported in lower case, is counted although A1 was
\* blocked under its upper-case spelling.
C34_CooldownMatchesExactString ==
    [][ /\ DOMAIN BLOCKED_BSSIDS' \subseteq {Data.target_bssid : Data \in KeyCmds}
        /\ ev'.n = ev.n + 1 =>
              /\ ev'.counted <=>
                    ~ \E K \in DOMAIN BLOCKED_BSSIDS :
                          /\ K = ev'.src
                          /\ now - BLOCKED_BSSIDS[K] < Secs(BlockCooldown)
              /\ ev'.src = A1 => ev'.counted
      ]_vars

\* A1 was blocked as A1Upper less than 30 s ago, and a frame from A1 has
\* just been counted into D1's window
C34_Witness ==
    /\ A1Upper \in DOMAIN BLOCKED_BSSIDS
    /\ A1 \notin DOMAIN BLOCKED_BSSIDS
    /\ ev.n > 0 /\ ev.src = A1 /\ ev.counted /\ ev.t = now
    /\ BLOCKED_BSSIDS[A1Upper] <= ev.t
    /\ ev.t - BLOCKED_BSSIDS[A1Upper] < Secs(BlockCooldown)
    /\ DeauthRecords[D1][Len(DeauthRecords[D1])] = <<ev.t, A1>>

\* C36: a block command whose target_bssid is missing or empty starts no
\* injection and leaves BLOCKED_BSSIDS as it is; one with a target starts the
\* injection for that target, on "wlan1" when it names no interface and of
\* 10 frames when it names no count.  Frames are injected, and BLOCKED_BSSIDS
\* is written, only by an injection so started.
C36_BlockCommandDefaults ==
    [][ /\ \A Data \in CommandCmds :
              BlockCallback(Data) =>
                IF "target_bssid" \notin DOMAIN Data \/ Data.target_bssid = ""
                THEN /\ mqttPc' = "idle"
                     /\ mqttData' = EmptyDict
                     /\ BLOCKED_BSSIDS' = BLOCKED_BSSIDS
                ELSE /\ mqttPc' = "sendp"
                     /\ mqttData'.RogueBSSID = Data.target_bssid
                     /\ "interface" \notin DOMAIN Data => mqttData'.Iface = "wlan1"
                     /\ "count" \notin DOMAIN Data => mqttData'.Count = 10
                     /\ BLOCKED_BSSIDS' = BLOCKED_BSSIDS
        /\ ev'.n = ev.n + 1 =>
              /\ mqttPc = "sendp"
              /\ ev'.src = mqttData.RogueBSSID
              /\ ev.sent < mqttData.Count
              /\ ev'.sent = ev.sent + 1
        /\ BLOCKED_BSSIDS' # BLOCKED_BSSIDS => mqttPc = "sendp"
      ]_vars

\* after a command without a target and one that names A1 alone, sendp has
\* injected its 10 frames for A1 on wlan1 and has not yet returned
C36_Witness ==
    /\ ev.blocks = 2
    /\ mqttPc = "sendp"
    /\ mqttData = [RogueBSSID |-> A1, Iface |-> "wlan1", Count |-> 10]
    /\ ev.n = 10 /\ ev.src = A1 /\ ev.dst = Broadcast
    /\ BLOCKED_BSSIDS = EmptyDict
    /\ mqttExc = << >>

\* C20: the clock never runs backwards, and over any sequence of block
\* commands an address that has a block record keeps one, with a timestamp
\* greater than or equal to the one it had.
C20_BlockRecordMonotonic ==
    [][ /\ now' >= now
        /\ \A A \in DOMAIN BLOCKED_BSSIDS :
              /\ A \in DOMAIN BLOCKED_BSSIDS'
              /\ BLOCKED_BSSIDS'[A] >= BLOCKED_BSSIDS[A]
      ]_vars

\* A1 has been blocked again after the clock advanced: its record is later
\* than the one the re-block found
C20_Witness ==
    /\ sendpOutcome = "returned"
    /\ mqttPc = "idle"
    /\ DOMAIN BLOCKED_BSSIDS = {A1}
    /\ ev.prev >= 0
    /\ BLOCKED_BSSIDS[A1] > ev.prev

\* C27 as stated: a beacon whose SSID is a key of neither mapping adds that
\* SSID to UnrecognisedSSIDs, publishes nothing and adds nothing to
\* AlertedRogues; and whenever a beacon adds to UnrecognisedSSIDs its SSID is
\* a key of neither mapping.
C27_UnmatchedAlwaysRecorded ==
    [][ /\ (StepL89 /\ beacon.ssid \notin DOMAIN PublicTrusted) =>
              /\ beacon.ssid \in UnrecognisedSSIDs'
              /\ published' = published
              /\ AlertedRogues' = AlertedRogues
        /\ (UnrecognisedSSIDs' # UnrecognisedSSIDs) =>
              /\ beacon.ssid \notin DOMAIN PersonalTrusted
              /\ beacon.ssid \notin DOMAIN PublicTrusted
      ]_vars

\* C27 amended: a beacon whose SSID the call found neither in PersonalTrusted
\* (line 75) nor in PublicTrusted (line 89) adds the SSID, normalised once
\* more, to UnrecognisedSSIDs unless it is empty (a hidden SSID adds
\* nothing), publishes nothing and adds nothing to AlertedRogues; a beacon
\* whose SSID the call found at either test adds nothing to
\* UnrecognisedSSIDs, and no other step does.
C27_UnmatchedRecordedUnlessEmpty ==
    [][ /\ (StepL89 /\ beacon.ssid \notin DOMAIN PublicTrusted) =>
              /\ beacon.ssid \notin DOMAIN beacon.pRead
              /\ UnrecognisedSSIDs' =
                    UnrecognisedSSIDs \cup ({NormaliseSSID(beacon.ssid)} \ {<< >>})
              /\ published' = published
              /\ AlertedRogues' = AlertedRogues
        /\ (UnrecognisedSSIDs' # UnrecognisedSSIDs) =>
              /\ StepL89
              /\ beacon.ssid \notin DOMAIN beacon.pRead
              /\ beacon.ssid \notin DOMAIN PublicTrusted
      ]_vars

\* with Home a personal key, beacons of the hidden SSID and of Unknown1 have
\* been handled: only Unknown1 is recorded, nothing is published
C27_Witness ==
    /\ rPc = "sniff"
    /\ Home \in DOMAIN PersonalTrusted
    /\ seenUnmatched = {Hidden, Unknown1}
    /\ UnrecognisedSSIDs = {Unknown1}
    /\ published = << >>
    /\ AlertedRogues = {}

\* C28: AlertedRogues never loses a pair, whatever the trust-update commands
\* do; a pair enters it exactly in the step that publishes a rogue_ap alert
\* for that pair, and no rogue_ap alert is published for a pair that is in it.
C28_AlertedRoguesOnlyGrows ==
    [][ /\ AlertedRogues \subseteq AlertedRogues'
        /\ (StepL52 \/ StepL56) => AlertedRogues' = AlertedRogues
        /\ (AlertedRogues' # AlertedRogues \/ published' # published) =>
              LET m == published'[Len(published')]
                  pair == <<m.payload.ssid, m.payload.detected_bssid>>
              IN /\ Len(published') = Len(published) + 1
                 /\ m.payload.alert_type = "rogue_ap"
                 /\ pair = <<beacon.ssid, beacon.bssid>>
                 /\ pair \notin AlertedRogues
                 /\ AlertedRogues' = AlertedRogues \cup {pair}
        /\ AtMostOnePerPair(published') /\ Len(published') >= Len(published)
      ]_vars

\* (Home, EvilAP) was alerted under the personal rule; a command has taken
\* Home out of the personal mapping, the public entry of Home does not allow
\* EvilAP's prefix, and a beacon of the pair is at the lookup of line 90
C28_Witness ==
    /\ rPc = "dr_l90"
    /\ beacon.ssid = Home /\ beacon.bssid = EvilAP
    /\ <<Home, EvilAP>> \in AlertedRogues
    /\ \E i \in DOMAIN published :
          /\ IsRogueAlert(published[i], Home, EvilAP)
          /\ published[i].payload.network_type = "personal"
    /\ Home \notin DOMAIN PersonalTrusted
    /\ Home \in DOMAIN PublicTrusted
    /\ GetPrefix(EvilAP) \notin Range(PublicTrusted[Home])
    /\ mqttPc = "idle"

\* an address, or the start of one, written in lower case
UpperOctets == {"AA", "BB", "CC", "DD", "EE", "FF"}
CasePairs == {<<"AA", "aa">>, <<"BB", "bb">>, <<"CC", "cc">>,
              <<"DD", "dd">>, <<"EE", "ee">>, <<"FF", "ff">>}
IsLowerCaseOf(Stored, Given) ==
    /\ Len(Stored) = Len(Given)
    /\ \A i \in DOMAIN Stored :
          /\ Stored[i] \notin UpperOctets
          /\ Stored[i] = Given[i] \/ <<Given[i], Stored[i]>> \in CasePairs
IsLowerCasePrefixOf(Stored, Given) ==
    /\ Len(Stored) = (IF Len(Given) >= 3 THEN 3 ELSE Len(Given))
    /\ IsLowerCaseOf(Stored, SubSeq(Given, 1, Len(Stored)))

\* C29: a command that carries `personal` leaves in PersonalTrusted, for each
\* SSID of the command and nothing else, the lower-cased forms of the
\* addresses given; a command that carries `public` leaves in PublicTrusted
\* the lower-cased first three octets of the addresses given; a command
\* without the field, and every other step, leaves the mapping as it was.
C29_StoredIdentifiersNormalised ==
    [][ /\ IF StepL52 /\ "personal" \in DOMAIN mqttData'
           THEN LET Given == mqttData'.personal
                IN /\ DOMAIN PersonalTrusted' = DOMAIN Given
                   /\ \A k \in DOMAIN Given :
                         /\ Len(PersonalTrusted'[k]) = Len(Given[k])
                         /\ \A i \in DOMAIN Given[k] :
                               IsLowerCaseOf(PersonalTrusted'[k][i], Given[k][i])
           ELSE PersonalTrusted' = PersonalTrusted
        /\ IF StepL56 /\ "public" \in DOMAIN mqttData
           THEN LET Given == mqttData.public
                IN /\ DOMAIN PublicTrusted' = DOMAIN Given
                   /\ \A k \in DOMAIN Given :
                         /\ Len(PublicTrusted'[k]) = Len(Given[k])
                         /\ \A i \in DOMAIN Given[k] :
                               IsLowerCasePrefixOf(PublicTrusted'[k][i], Given[k][i])
           ELSE PublicTrusted' = PublicTrusted
      ]_vars

\* a command with `personal` only, its address in mixed case, is at line 56:
\* the address is stored in lower case, and the public entry, of an earlier
\* command, holds the lower-cased prefixes of a mixed-case and a short address
C29_Witness ==
    /\ mqttPc = "ut_l56"
    /\ DOMAIN mqttData = {"personal"}
    /\ mqttData.personal = Home :> <<MixedAP, CafeAP>>
    /\ PersonalTrusted = Home :> <<HomeAP, CafeAP>>
    /\ PublicTrusted = Cafe :> << <<"aa", "bb", "cc">>, <<"aa", "bb">> >>

\* C30 as stated: the lookup of the allowed list reads the mapping that the
\* membership test before it read: PersonalTrusted at line 76 is the mapping
\* tested at line 75 and holds the SSID, and PublicTrusted at line 90 holds
\* the SSID found at line 89.
C30_TestAndLookupSeeOneMapping ==
    [][ /\ StepL76 =>
              /\ PersonalTrusted = beacon.pRead
              /\ beacon.ssid \in DOMAIN PersonalTrusted
        /\ StepL90 => beacon.ssid \in DOMAIN PublicTrusted
      ]_vars

\* C35: no step takes an SSID out of UnrecognisedSSIDs and the empty SSID is
\* never in it; the alert published when sniffing ends lists every member,
\* those that a trust mapping has come to hold included.
C35_UnrecognisedOnlyGrows ==
    [][ /\ UnrecognisedSSIDs \subseteq UnrecognisedSSIDs'
        /\ << >> \notin UnrecognisedSSIDs'
        /\ (rPc = "sniff" /\ rPc' = "stopped" /\ UnrecognisedSSIDs # {}) =>
              /\ Len(published') = Len(published) + 1
              /\ LET m == published'[Len(published')]
                 IN /\ m.topic = "alerts/rogue_ap"
                    /\ m.payload.alert_type = "unrecognised_aps"
                    /\ {m.payload.ssids[i] : i \in DOMAIN m.payload.ssids}
                          = UnrecognisedSSIDs
                    /\ Len(m.payload.ssids) = Cardinality(UnrecognisedSSIDs)
      ]_vars

\* sniffing has ended; Home and Unknown1 were seen while in neither mapping
\* and the hidden SSID too, Home is now a key of PersonalTrusted, and the
\* alert lists Home and Unknown1
C35_Witness ==
    /\ rPc = "stopped"
    /\ Home \in DOMAIN PersonalTrusted
    /\ seenUnmatched = {Home, Unknown1, Hidden}
    /\ UnrecognisedSSIDs = {Home, Unknown1}
    /\ published = <<[topic |-> "alerts/rogue_ap",
                      payload |-> UnrecognisedAlert(<<Unknown1, Home>>),
                      at |-> now]>>

\* C15: the personal rule comes first.  A beacon whose SSID is a key of
\* PersonalTrusted at line 75 goes to the personal rule whatever PublicTrusted
\* holds, and the public rule is applied only to an SSID that was no personal
\* key; with the SSID a key of both mappings, an address outside the personal
\* list publishes a rogue_ap alert of network_type "personal" (once per pair)
\* even when its prefix is an allowed public prefix, and an address in the
\* personal list publishes nothing even when its prefix is no allowed public
\* prefix.
C15_PersonalRuleFirst ==
    [][ /\ ( /\ rPc = "sniff" /\ rPc' \in {"dr_l76", "dr_l89"}
             /\ beacon'.ssid \in DOMAIN PersonalTrusted ) => rPc' = "dr_l76"
        /\ StepL90 => beacon.ssid \notin DOMAIN beacon.pRead
        /\ ( /\ StepL76
             /\ beacon.ssid \in DOMAIN PersonalTrusted
             /\ beacon.ssid \in DOMAIN PublicTrusted ) =>
              LET allowed == PersonalTrusted[beacon.ssid]
                  inPersonal == \E i \in DOMAIN allowed : allowed[i] = beacon.bssid
                  already == AlertedBefore(published, beacon.ssid, beacon.bssid)
              IN /\ (~inPersonal /\ ~already) =>
                       /\ Len(published') = Len(published) + 1
                       /\ IsRogueAlert(published'[Len(published')], beacon.ssid,
                                       beacon.bssid)
                       /\ published'[Len(published')].payload.network_type = "personal"
                       /\ published'[Len(published')].payload.expected = allowed
                 /\ (inPersonal \/ already) => published' = published
                 /\ UnrecognisedSSIDs' = UnrecognisedSSIDs
      ]_vars

\* Home is a key of both mappings; EvilAP, whose prefix is the one of HomeAP,
\* has a personal alert, and HomeAP, whose prefix the stored public entry does
\* not allow, has none
C15_Witness ==
    /\ rPc = "sniff" /\ mqttPc = "idle"
    /\ Home \in DOMAIN PersonalTrusted /\ Home \in DOMAIN PublicTrusted
    /\ HomeAP \in Range(PersonalTrusted[Home])
    /\ GetPrefix(HomeAP) \notin Range(PublicTrusted[Home])
    /\ Len(published) = 1
    /\ IsRogueAlert(published[1], Home, EvilAP)
    /\ published[1].payload.network_type = "personal"
    /\ AlertedRogues = {<<Home, EvilAP>>}

\* The logical SSID that a variant form denotes: quotation marks made alike,
\* U+0000 removed, surrounding white space trimmed.
Logical(SSID) ==
    LET Straight == [i \in DOMAIN SSID |-> IF SSID[i] = "rsquo" THEN "apos" ELSE SSID[i]]
    IN Strip(RemoveNul(ReplaceCurly(Straight)))

SameLogicalKey(SSID, Mapping) == \E k \in DOMAIN Mapping : Logical(k) = Logical(SSID)

\* C16 as stated: a beacon SSID and a trusted key that denote the same logical
\* SSID are treated as equal, whichever carries the variant form: a beacon
\* whose logical SSID is that of a personal key gets the personal rule, and
\* one whose logical SSID is that of a public key is not left unrecognised.
C16_VariantsClassifiedAlike ==
    [][ /\ ( /\ rPc = "sniff" /\ rPc' \in {"dr_l76", "dr_l89"}
             /\ SameLogicalKey(beacon'.ssid, PersonalTrusted) ) => rPc' = "dr_l76"
        /\ (StepL89 /\ SameLogicalKey(beacon.ssid, PublicTrusted)) => rPc' = "dr_l90"
      ]_vars

\* C14 as stated: a failure while one beacon is being handled skips that
\* beacon and never ends the beacon loop: a DetectRogue call in progress is
\* always followed by the loop going on.
C14_FrameFailureSkipsEvent ==
    [][ (rPc \in {"dr_l76", "dr_l89", "dr_l90"}) => (rPc' # "exited") ]_vars

\* C9 as claimed: no DetectRogue call reads the new personal mapping of a
\* command that carries both fields (line 75) and then the old public mapping
\* of the same command (line 89).
C9_AtomicTrustUpdate ==
    [][ StepL89 =>
          ~ ( /\ mqttPc = "ut_l56"
              /\ {"personal", "public"} \subseteq DOMAIN mqttData
              /\ beacon.pRead = PersonalTrusted
              /\ PersonalTrusted # mqttOld
              /\ PublicTrusted # PublicFromData(mqttData) )
      ]_vars

====
